---- MODULE Spec2Model ----
(***************************************************************************)
(* Model of the offline document-variable synchronisation engine            *)
(* (docx_updater.py), and of the usage table of the variable store          *)
(* (database.py) as driven by the desktop application (app.py,              *)
(* menubar_app.py).                                                         *)
(*                                                                          *)
(* Text is modelled as a sequence of one-character strings, so that the     *)
(* regular expression of the field instruction and the quote stripping      *)
(* are computed and not assumed.                                            *)
(***************************************************************************)
EXTENDS Integers, Sequences, FiniteSets, TLC

VARIABLES
    p_defs,       \* patch engine: docVar elements of the settings.xml being patched
    p_body,       \* patch engine: element stream of the document.xml being patched
    p_variables,  \* patch engine: the update map (name -> new value)
    p_orig,       \* patch engine: the two parts as they were before the patch
    p_once,       \* patch engine: the two parts after the first patch
    p_stage,      \* patch engine: which pass runs next
    fs,           \* file system: path -> file content
    pc,           \* update_docx_variables: the statement that runs next
    call,         \* update_docx_variables: its arguments (docx_path, variables, backup)
    temp_dir,     \* the extracted working copy
    result,       \* how the last call ended
    rewritten,    \* the parts the current call wrote back into temp_dir
    pre,          \* what docx_path and its .bak held when the current call began
    history,      \* number of calls so far, names of the first package, all calls with backup
    db_variables, \* variable store: rows of the variables table
    db_documents, \* variable store: rows of the documents table
    db_usage,     \* variable store: rows of the usage table
    db_seq,       \* variable store: last AUTOINCREMENT id of each table
    word_fields,  \* Word: document guid -> names of its DOCVARIABLE fields
    recorded,     \* usages recorded with unit and found by every scan since
    s_body,       \* read scanner: element stream of the document.xml it is given
    s_names,      \* read scanner: the list get_docx_field_names returned
    s_shown,      \* read scanner: the names the display pass takes from the same body
    s_stage,      \* read scanner: what has run
    r_sheet,      \* range reader: the worksheet (its first rows, and the row all later rows hold)
    r_start,      \* range reader: start_row
    r_row,        \* range reader: row
    r_empty_rows, \* range reader: empty_rows
    r_variables,  \* range reader: variables, the list being built
    r_pc,         \* range reader: in the loop or returned
    r_last_read,  \* range reader: the last sheet row a cell was read from (0: none)
    r_cell,       \* cell access: the cell read_cell_value was asked for and what it returned
    x_files,      \* workbooks: path -> how the file can be opened, its TansuGUID property
    x_uuid,       \* workbooks: number of identifiers uuid.uuid4() has generated
    x_log,        \* workbooks: the calls of get_or_create_excel_guid so far
    u_docs,       \* reconciliation: tracked document -> its file (status, docVar elements)
    u_pc,         \* reconciliation: where the running command stands
    u_live,       \* Update Document: the document, db_values and stale of the last run
    u_files,      \* Update All: docx_files
    u_i,          \* Update All: index of the file checked or written next
    u_checked,    \* Update All: per checked file, current_vars, new_values and changes
    u_todo,       \* Update All: files_to_update
    u_count,      \* Update All: updated_count
    u_errors,     \* Update All: errors
    u_attempted,  \* Update All: the files update_docx_variables was called for, in order
    y_links,      \* Excel sync: the variables passed to sync_variables_from_excel
    y_i,          \* Excel sync: index of the variable read next
    y_changes,    \* Excel sync: changes
    y_attempted,  \* Excel sync: the variables whose cell was asked for, in order
    c_ref,        \* cell reference: the start_cell given to read_range_as_variables
    c_out,        \* cell reference: what the call made of it
    k_pc,         \* concurrent callers of get_or_create_excel_guid: caller -> next step
    k_ret         \* concurrent callers: caller -> the value read or returned

pvars == <<p_defs, p_body, p_variables, p_orig, p_once, p_stage>>
dvars == <<fs, pc, call, temp_dir, result, rewritten, pre, history>>

uvars == <<db_variables, db_documents, db_usage, db_seq, word_fields, recorded>>
svars == <<s_body, s_names, s_shown, s_stage>>
gvars == <<x_files, x_uuid, x_log>>
bvars == <<u_docs, u_pc, u_live, u_files, u_i, u_checked, u_todo, u_count, u_errors,
           u_attempted>>
yvars == <<y_links, y_i, y_changes, y_attempted>>
cvars == <<c_ref, c_out>>
kvars == <<k_pc, k_ret>>
rvars == <<r_sheet, r_start, r_row, r_empty_rows, r_variables, r_pc, r_last_read, r_cell>>

\* the variables of the components added to the three above
xvars == <<svars, rvars, gvars, bvars, yvars, cvars, kvars>>

vars == <<p_defs, p_body, p_variables, p_orig, p_once, p_stage,
          fs, pc, call, temp_dir, result, rewritten, pre, history,
          db_variables, db_documents, db_usage, db_seq, word_fields, recorded,
          s_body, s_names, s_shown, s_stage,
          r_sheet, r_start, r_row, r_empty_rows, r_variables, r_pc, r_last_read, r_cell,
          x_files, x_uuid, x_log,
          u_docs, u_pc, u_live, u_files, u_i, u_checked, u_todo, u_count, u_errors,
          u_attempted, y_links, y_i, y_changes, y_attempted,
          c_ref, c_out, k_pc, k_ret>>

----------------------------------------------------------------------------
(* Bounds *)

MaxBody == 5      \* longest element stream of a document body
MaxDefs == 2      \* most docVar elements of a settings part
MaxCalls == 2     \* most calls of update_docx_variables in one behaviour

----------------------------------------------------------------------------
(* Text *)

KEYWORD == <<"D","O","C","V","A","R","I","A","B","L","E">>
QUOTE == "\""
WhiteSpace == {" ", "\t"}

NameA == <<"A">>
NameB == <<"B">>
NameC == <<"C">>

\* " DOCVARIABLE A "
InstrA == <<" ">> \o KEYWORD \o <<" ", "A", " ">>
\* DOCVARIABLE "B" \* MERGEFORMAT
InstrB == KEYWORD \o <<" ", QUOTE, "B", QUOTE, " ", "\\", "*", " ", "M">>
\* DOCVARIABLE  C   (two blanks)
InstrC == KEYWORD \o <<" ", " ", "C">>
OldText == <<"o">>
ValX == <<"x">>
ValY == <<"y">>

----------------------------------------------------------------------------
(* re.search(r'DOCVARIABLE\s+(\S+)', instr) and match.group(1).strip('"') *)

HasKeywordAt(s, i) ==
    /\ i + Len(KEYWORD) - 1 <= Len(s)
    /\ SubSeq(s, i, i + Len(KEYWORD) - 1) = KEYWORD

RECURSIVE SkipSpace(_, _)
SkipSpace(s, j) ==
    IF j <= Len(s) /\ s[j] \in WhiteSpace THEN SkipSpace(s, j + 1) ELSE j

RECURSIVE SkipNonSpace(_, _)
SkipNonSpace(s, j) ==
    IF j <= Len(s) /\ s[j] \notin WhiteSpace THEN SkipNonSpace(s, j + 1) ELSE j

\* the pattern matches with the keyword at position i
MatchesAt(s, i) ==
    /\ HasKeywordAt(s, i)
    /\ LET j == i + Len(KEYWORD)
           k == SkipSpace(s, j)
       IN  k > j /\ k <= Len(s)

\* group 1 of the match whose keyword is at position i
GroupAt(s, i) ==
    LET k == SkipSpace(s, i + Len(KEYWORD))
    IN  SubSeq(s, k, SkipNonSpace(s, k) - 1)

RECURSIVE StripLeft(_)
StripLeft(s) ==
    IF Len(s) > 0 /\ s[1] = QUOTE THEN StripLeft(Tail(s)) ELSE s

RECURSIVE StripRight(_)
StripRight(s) ==
    IF Len(s) > 0 /\ s[Len(s)] = QUOTE THEN StripRight(SubSeq(s, 1, Len(s) - 1)) ELSE s

\* str.strip('"')
StripQuotes(s) == StripRight(StripLeft(s))

\* re.search: the leftmost match, or none
DocVarMatch(instr) ==
    LET hits == {i \in 1..Len(instr) : MatchesAt(instr, i)}
    IN  IF hits = {}
        THEN [matched |-> FALSE, name |-> <<>>]
        ELSE LET i == CHOOSE h \in hits : \A g \in hits : h <= g
             IN  [matched |-> TRUE, name |-> StripQuotes(GroupAt(instr, i))]

----------------------------------------------------------------------------
(* _update_settings_xml: the definition pass *)

DocVar(n, v) == [name |-> n, val |-> v]

\* a wrong definition pass: rewrites every definition it meets
UpdateSettingsAll(docVars, variables) ==
    [i \in 1..Len(docVars) |->
        IF DOMAIN variables # {}
        THEN [docVars[i] EXCEPT !.val = variables[CHOOSE n \in DOMAIN variables : TRUE]]
        ELSE docVars[i]]

UpdateSettings(docVars, variables) ==
    [i \in 1..Len(docVars) |->
        IF docVars[i].name \in DOMAIN variables
        THEN [docVars[i] EXCEPT !.val = variables[docVars[i].name]]
        ELSE docVars[i]]

----------------------------------------------------------------------------
(* The element stream of document.xml, in document order (root.iter()).   *)
(* A w:t element records whether it lies inside a w:fldSimple and that    *)
(* element's instr attribute.                                             *)

FldChar(type) ==
    [tag |-> "fldChar", fldCharType |-> type, text |-> <<>>,
     inSimple |-> FALSE, instr |-> <<>>]
InstrText(s) ==
    [tag |-> "instrText", fldCharType |-> "", text |-> s,
     inSimple |-> FALSE, instr |-> <<>>]
T(s) ==
    [tag |-> "t", fldCharType |-> "", text |-> s,
     inSimple |-> FALSE, instr |-> <<>>]
SimpleT(fldInstr, s) ==
    [tag |-> "t", fldCharType |-> "", text |-> s,
     inSimple |-> TRUE, instr |-> fldInstr]

\* a wrong first loop: a field whose variable is not in the map is blanked
SimpleFieldPassBlank(elems, variables) ==
    [i \in 1..Len(elems) |->
        LET e == elems[i]
            m == DocVarMatch(e.instr)
        IN  IF e.tag = "t" /\ e.inSimple /\ m.matched
            THEN [e EXCEPT !.text = IF m.name \in DOMAIN variables
                                    THEN variables[m.name] ELSE <<>>]
            ELSE e]

\* first loop of _update_document_xml: every w:t below a matching w:fldSimple
SimpleFieldPass(elems, variables) ==
    [i \in 1..Len(elems) |->
        LET e == elems[i]
            m == DocVarMatch(e.instr)
        IN  IF e.tag = "t" /\ e.inSimple /\ m.matched /\ m.name \in DOMAIN variables
            THEN [e EXCEPT !.text = variables[m.name]]
            ELSE e]

\* state of the second loop before the first element
ScanStart == [in_field |-> FALSE, after_separate |-> FALSE,
              has_name |-> FALSE, current_var_name |-> <<>>]

\* a wrong loop: the end marker leaves the field but keeps what was seen
ScanStepKeeps(st, e) ==
    IF e.tag = "fldChar"
    THEN IF e.fldCharType = "begin"
         THEN [st EXCEPT !.in_field = TRUE]
         ELSE IF e.fldCharType = "separate"
         THEN [st EXCEPT !.after_separate = TRUE]
         ELSE st
    ELSE IF e.tag = "instrText" /\ st.in_field
    THEN LET m == DocVarMatch(e.text)
         IN  IF m.matched
             THEN [st EXCEPT !.has_name = TRUE, !.current_var_name = m.name]
             ELSE st
    ELSE st

\* the second loop's state after element e
ScanStep(st, e) ==
    IF e.tag = "fldChar"
    THEN IF e.fldCharType = "begin"
         THEN [in_field |-> TRUE, after_separate |-> FALSE,
               has_name |-> FALSE, current_var_name |-> <<>>]
         ELSE IF e.fldCharType = "separate"
         THEN [st EXCEPT !.after_separate = TRUE]
         ELSE IF e.fldCharType = "end"
         THEN [in_field |-> FALSE, after_separate |-> FALSE,
               has_name |-> FALSE, current_var_name |-> <<>>]
         ELSE st
    ELSE IF e.tag = "instrText" /\ st.in_field
    THEN LET m == DocVarMatch(e.text)
         IN  IF m.matched
             THEN [st EXCEPT !.has_name = TRUE, !.current_var_name = m.name]
             ELSE st
    ELSE st

\* a wrong rewrite: the new value is appended to the run's text
ScanWriteAppend(st, e, variables) ==
    IF /\ e.tag = "t"
       /\ st.in_field
       /\ st.after_separate
       /\ st.has_name /\ st.current_var_name # <<>>
       /\ st.current_var_name \in DOMAIN variables
    THEN [e EXCEPT !.text = e.text \o variables[st.current_var_name]]
    ELSE e

\* the second loop's rewrite of element e met in state st
ScanWrite(st, e, variables) ==
    IF /\ e.tag = "t"
       /\ st.in_field
       /\ st.after_separate
       /\ st.has_name /\ st.current_var_name # <<>>
       /\ st.current_var_name \in DOMAIN variables
    THEN [e EXCEPT !.text = variables[st.current_var_name]]
    ELSE e

RECURSIVE ComplexFieldPass(_, _, _, _)
ComplexFieldPass(elems, variables, i, st) ==
    IF i > Len(elems)
    THEN elems
    ELSE LET e == elems[i]
         IN  ComplexFieldPass([elems EXCEPT ![i] = ScanWrite(st, e, variables)],
                              variables, i + 1, ScanStep(st, e))

\* _update_document_xml: the display pass
UpdateDocument(elems, variables) ==
    ComplexFieldPass(SimpleFieldPass(elems, variables), variables, 1, ScanStart)

----------------------------------------------------------------------------
(* The patch engine on its own: the two passes applied to one settings    *)
(* part and one document body drawn from bounded sets.                    *)

\* update maps: a dict of variable name -> new value
UpdateMaps ==
    { [n \in {} |-> ValX],
      [n \in {NameA} |-> ValX],
      [n \in {NameB} |-> ValY],
      [n \in {NameA, NameB} |-> IF n = NameA THEN ValX ELSE ValY] }

DefNames == {NameA, NameB, NameC}
DefSeqs == UNION { [1..n -> {DocVar(nm, OldText) : nm \in DefNames}] : n \in 0..MaxDefs }

BodyElems ==
    { FldChar("begin"), FldChar("separate"), FldChar("end"),
      InstrText(InstrA), InstrText(InstrB),
      T(OldText), SimpleT(InstrA, OldText) }
BodySeqs == UNION { [1..n -> BodyElems] : n \in 0..MaxBody }

\* element streams with a field begun inside another field, in its
\* instruction part or in its result, and with two fields side by side
NestedBodies ==
    { << FldChar("begin"), InstrText(InstrA), FldChar("begin"), InstrText(InstrB),
         FldChar("separate"), T(OldText), FldChar("end"), T(OldText), FldChar("end") >>,
      << FldChar("begin"), InstrText(InstrA), FldChar("separate"), T(OldText),
         FldChar("begin"), InstrText(InstrB), FldChar("separate"), T(OldText),
         FldChar("end"), T(OldText), FldChar("end"), T(OldText) >>,
      << FldChar("begin"), InstrText(InstrB), FldChar("begin"), InstrText(InstrA),
         FldChar("separate"), T(OldText), FldChar("end"), FldChar("separate"),
         InstrText(InstrB), T(OldText), FldChar("end") >>,
      << FldChar("begin"), InstrText(InstrA), FldChar("separate"), T(OldText),
         FldChar("end"), FldChar("begin"), InstrText(InstrB), FldChar("separate"),
         T(OldText), FldChar("end"), T(OldText) >> }

\* element streams with a field whose display text is split over two text
\* runs: a complex field, and a simple field followed by a complex one
SplitBodies ==
    { << FldChar("begin"), InstrText(InstrA), FldChar("separate"), T(OldText),
         T(OldText), FldChar("end") >>,
      << SimpleT(InstrB, OldText), SimpleT(InstrB, OldText), FldChar("begin"),
         InstrText(InstrA), FldChar("separate"), T(OldText), FldChar("end") >> }

\* the variable store and Word at rest, for the specifications that do not
\* run them
UsageIdle ==
    /\ db_variables = {}
    /\ db_documents = {}
    /\ db_usage = {}
    /\ db_seq = <<>>
    /\ word_fields = <<>>
    /\ recorded = {}

\* the patch engine at rest
PatchIdle ==
    /\ p_defs = <<>>
    /\ p_body = <<>>
    /\ p_variables = <<>>
    /\ p_orig = <<>>
    /\ p_once = <<>>
    /\ p_stage = "off"

\* the read scanner at rest
ScannerIdle ==
    /\ s_body = <<>>
    /\ s_names = <<>>
    /\ s_shown = {}
    /\ s_stage = "off"

\* the range reader at rest
RangeIdle ==
    /\ r_sheet = <<>>
    /\ r_start = 0
    /\ r_row = 0
    /\ r_empty_rows = 0
    /\ r_variables = <<>>
    /\ r_pc = "off"
    /\ r_last_read = 0
    /\ r_cell = <<>>

\* no workbook, no call
GuidIdle ==
    /\ x_files = <<>>
    /\ x_uuid = 0
    /\ x_log = <<>>

\* no reconciliation command running
ReconcileIdle ==
    /\ u_docs = <<>>
    /\ u_pc = "off"
    /\ u_live = <<>>
    /\ u_files = <<>>
    /\ u_i = 0
    /\ u_checked = <<>>
    /\ u_todo = <<>>
    /\ u_count = 0
    /\ u_errors = <<>>
    /\ u_attempted = <<>>

\* no Excel sync running
SyncIdle ==
    /\ y_links = <<>>
    /\ y_i = 0
    /\ y_changes = <<>>
    /\ y_attempted = <<>>

CellIdle ==
    /\ c_ref = <<>>
    /\ c_out = <<>>

RaceIdle ==
    /\ k_pc = <<>>
    /\ k_ret = <<>>

\* the components added to the three above, at rest
OthersIdle ==
    ScannerIdle /\ RangeIdle /\ GuidIdle /\ ReconcileIdle /\ SyncIdle /\ CellIdle /\ RaceIdle

\* the codec at rest, for the specifications that do not run it
DocxIdle ==
    /\ fs = <<>>
    /\ pc = "idle"
    /\ call = <<>>
    /\ temp_dir = <<>>
    /\ result = "none"
    /\ rewritten = {}
    /\ pre = <<>>
    /\ history = <<>>

InitPatch ==
    /\ p_variables \in UpdateMaps
    /\ \/ p_defs \in DefSeqs /\ p_body = <<>>
       \/ p_defs = <<>> /\ p_body \in BodySeqs
       \/ p_defs = <<>> /\ p_body \in NestedBodies \cup SplitBodies
    /\ p_orig = [defs |-> p_defs, body |-> p_body]
    /\ p_once = <<>>
    /\ p_stage = "settings"
    /\ DocxIdle
    /\ UsageIdle
    /\ OthersIdle

\* update_docx_variables line 52
PatchSettings ==
    /\ p_stage = "settings"
    /\ p_defs' = UpdateSettings(p_defs, p_variables)
    /\ p_stage' = "document"
    /\ UNCHANGED <<p_body, p_variables, p_orig, p_once>>
    /\ UNCHANGED <<dvars, uvars, xvars>>

\* update_docx_variables line 57
PatchDocument ==
    /\ p_stage = "document"
    /\ p_body' = UpdateDocument(p_body, p_variables)
    /\ p_stage' = "patched"
    /\ UNCHANGED <<p_defs, p_variables, p_orig, p_once>>
    /\ UNCHANGED <<dvars, uvars, xvars>>

\* update_docx_variables called once more with the same map: both passes
\* over the parts the first call wrote
PatchAgain ==
    /\ p_stage = "patched"
    /\ p_once' = [defs |-> p_defs, body |-> p_body]
    /\ p_defs' = UpdateSettings(p_defs, p_variables)
    /\ p_body' = UpdateDocument(p_body, p_variables)
    /\ p_stage' = "patched twice"
    /\ UNCHANGED <<p_variables, p_orig>>
    /\ UNCHANGED <<dvars, uvars, xvars>>

NextPatch == PatchSettings \/ PatchDocument \/ PatchAgain

SpecPatch == InitPatch /\ [][NextPatch]_vars

----------------------------------------------------------------------------
(* Fields of a body, as the data model describes them: a simple field is  *)
(* a fldSimple element with its text runs; a complex field runs from a    *)
(* begin marker to its end marker, takes its name from the instruction    *)
(* text between begin and separate, and displays the text runs between    *)
(* separate and end.                                                      *)

IsMarker(b, k, type) == b[k].tag = "fldChar" /\ b[k].fldCharType = type

\* the begin marker of the field that is open at position i, or 0
OpenBegin(b, i) ==
    LET gs == {g \in 1..(i - 1) :
                  /\ IsMarker(b, g, "begin")
                  /\ \A k \in (g + 1)..(i - 1) :
                        ~IsMarker(b, k, "begin") /\ ~IsMarker(b, k, "end")}
    IN  IF gs = {} THEN 0 ELSE CHOOSE g \in gs : TRUE

\* the first separate marker between g and i, or 0
FirstSeparate(b, g, i) ==
    LET ss == {k \in (g + 1)..(i - 1) : IsMarker(b, k, "separate")}
    IN  IF ss = {} THEN 0 ELSE CHOOSE k \in ss : \A j \in ss : k <= j

\* names of the DOCVARIABLE instructions between positions g and s
InstrNames(b, g, s) ==
    {DocVarMatch(b[k].text).name :
        k \in {j \in (g + 1)..(s - 1) :
                  b[j].tag = "instrText" /\ DocVarMatch(b[j].text).matched}}

\* the variables whose field displays the text run at position i
FieldNamesOf(b, i) ==
    LET g == OpenBegin(b, i)
        s == IF g = 0 THEN 0 ELSE FirstSeparate(b, g, i)
    IN  (IF b[i].inSimple /\ DocVarMatch(b[i].instr).matched
         THEN {DocVarMatch(b[i].instr).name} ELSE {})
        \cup (IF s = 0 THEN {} ELSE InstrNames(b, g, s))

IsDisplayRunOf(b, i, keys) == b[i].tag = "t" /\ FieldNamesOf(b, i) \cap keys # {}

----------------------------------------------------------------------------
(* Claims about the patch engine (checked under SpecPatch) *)

Patched == p_stage = "patched"
KeysOfUpdate == DOMAIN p_variables

\* C6: after the definition pass every stored definition whose name is a
\* key of the update map has the map's value, every other definition keeps
\* its value, and the definitions of the part (their names, in order) are
\* the same as before: none is created or removed.
C6_DefinitionPass ==
    p_stage \in {"document", "patched"} =>
        /\ Len(p_defs) = Len(p_orig.defs)
        /\ \A i \in 1..Len(p_defs) :
              /\ p_defs[i].name = p_orig.defs[i].name
              /\ p_defs[i].val = IF p_defs[i].name \in KeysOfUpdate
                                 THEN p_variables[p_defs[i].name]
                                 ELSE p_orig.defs[i].val

\* a definition was rewritten, another one kept, and a key of the update
\* map has no definition in the part
C6_Witness ==
    /\ Patched
    /\ \E i \in 1..Len(p_defs) : p_defs[i].val # p_orig.defs[i].val
    /\ \E i \in 1..Len(p_defs) : p_defs[i].name \notin KeysOfUpdate
    /\ \E n \in KeysOfUpdate : \A i \in 1..Len(p_defs) : p_defs[i].name # n

\* C7: a patch changes only definition values of names in the update map
\* and the display text runs of DOCVARIABLE fields whose variable is a key
\* of the update map; every other element of the body is as it was.
C7_SelectiveUpdate ==
    Patched =>
        /\ Len(p_defs) = Len(p_orig.defs)
        /\ \A i \in 1..Len(p_defs) :
              p_defs[i] = p_orig.defs[i] \/ p_orig.defs[i].name \in KeysOfUpdate
        /\ Len(p_body) = Len(p_orig.body)
        /\ \A i \in 1..Len(p_body) :
              \/ p_body[i] = p_orig.body[i]
              \/ IsDisplayRunOf(p_orig.body, i, KeysOfUpdate)

\* C9: applying the same update map twice in succession gives the same
\* definitions and the same body as applying it once.
C9_Idempotent ==
    p_stage = "patched twice" =>
        /\ p_defs = p_once.defs
        /\ p_body = p_once.body

\* the map was applied twice to a body in which the first application
\* rewrote a run of a complex field and a run of a simple field
C9_Witness ==
    /\ p_stage = "patched twice"
    /\ \E i \in 1..Len(p_body) : ~p_body[i].inSimple /\ p_once.body[i] # p_orig.body[i]
    /\ \E i \in 1..Len(p_body) : p_body[i].inSimple /\ p_once.body[i] # p_orig.body[i]

\* the state in which the second loop of the display pass meets element i
RECURSIVE ScanStateBefore(_, _)
ScanStateBefore(b, i) ==
    IF i = 1 THEN ScanStart ELSE ScanStep(ScanStateBefore(b, i - 1), b[i - 1])

\* the three states of the complex-field state machine, read off the loop's
\* variables
ScanIdle(st) == ~st.in_field
ScanInField(st) == st.in_field /\ ~st.after_separate
ScanAfterSeparate(st) == st.in_field /\ st.after_separate

\* the state machine as the design states it: Idle, InField, AfterSeparate
\* and the remembered name, which only an instruction text met in InField sets
MachineStart == [state |-> "Idle", has_name |-> FALSE, name |-> <<>>]

MachineStep(m, e) ==
    IF e.tag = "fldChar" /\ e.fldCharType = "begin"
    THEN [state |-> "InField", has_name |-> FALSE, name |-> <<>>]
    ELSE IF e.tag = "fldChar" /\ e.fldCharType = "end"
    THEN MachineStart
    ELSE IF e.tag = "fldChar" /\ e.fldCharType = "separate" /\ m.state = "InField"
    THEN [m EXCEPT !.state = "AfterSeparate"]
    ELSE IF e.tag = "instrText" /\ m.state = "InField" /\ DocVarMatch(e.text).matched
    THEN [m EXCEPT !.has_name = TRUE, !.name = DocVarMatch(e.text).name]
    ELSE m

RECURSIVE MachineBefore(_, _)
MachineBefore(b, i) ==
    IF i = 1 THEN MachineStart ELSE MachineStep(MachineBefore(b, i - 1), b[i - 1])

\* the text run at position i is met in AfterSeparate of a field whose
\* remembered name is a key of the update map
MachineOverwrites(b, i, keys) ==
    /\ b[i].tag = "t"
    /\ MachineBefore(b, i).state = "AfterSeparate"
    /\ MachineBefore(b, i).has_name
    /\ MachineBefore(b, i).name \in keys

\* C19: a text run is overwritten with updates[n] exactly when it is met in
\* AfterSeparate of the current field (begin, then an instruction text
\* matching DOCVARIABLE n, then separate, no end in between) and n is a key
\* of the update map; every other run is as the simple-field loop left it,
\* so no name leaks into a later field or into text outside any field.
C19_StateMachine ==
    Patched =>
        \A i \in 1..Len(p_body) :
            p_body[i] =
                IF MachineOverwrites(p_orig.body, i, KeysOfUpdate)
                THEN [p_orig.body[i] EXCEPT
                         !.text = p_variables[MachineBefore(p_orig.body, i).name]]
                ELSE SimpleFieldPass(p_orig.body, p_variables)[i]

\* C20: an instruction text met in Idle or in AfterSeparate does not change
\* the remembered name, and in AfterSeparate no element other than a text
\* run, an end marker or the begin marker of the next field changes the
\* state of the scan.
C20_NameSetInFieldOnly ==
    Patched =>
        \A i \in 1..Len(p_orig.body) :
            LET st == ScanStateBefore(p_orig.body, i)
                e == p_orig.body[i]
            IN  /\ (e.tag = "instrText" /\ (ScanIdle(st) \/ ScanAfterSeparate(st)))
                      => /\ ScanStep(st, e).has_name = st.has_name
                         /\ ScanStep(st, e).current_var_name = st.current_var_name
                /\ (ScanAfterSeparate(st) /\ e.tag # "t"
                        /\ ~(e.tag = "fldChar" /\ e.fldCharType \in {"begin", "end"}))
                      => ScanStep(st, e) = st

\* the first end marker after position h, or 0
FirstEnd(b, h) ==
    LET es == {k \in (h + 1)..Len(b) : IsMarker(b, k, "end")}
    IN  IF es = {} THEN 0 ELSE CHOOSE k \in es : \A j \in es : k <= j

\* h is a begin marker met while the field begun at g has not ended
BeginsInside(b, g, h) ==
    /\ g < h
    /\ IsMarker(b, g, "begin")
    /\ IsMarker(b, h, "begin")
    /\ \A k \in (g + 1)..(h - 1) : ~IsMarker(b, k, "end")

\* the text run at i follows the end marker of a field begun inside another
\* field, with no begin marker after that end marker
FollowsInnerEnd(b, i) ==
    /\ b[i].tag = "t"
    /\ \E g \in 1..Len(b), h \in 1..Len(b) :
          /\ BeginsInside(b, g, h)
          /\ FirstEnd(b, h) # 0
          /\ FirstEnd(b, h) < i
          /\ \A k \in (FirstEnd(b, h) + 1)..(i - 1) : ~IsMarker(b, k, "begin")

\* C21: fields are handled one after the other.  After every end marker the
\* scan is idle and remembers no name; a text run that follows the end marker
\* of a field begun inside another field is left as the simple-field loop left
\* it; and the loop changes a text run only while it remembers a name.
C21_FieldsSequential ==
    Patched =>
        LET b == p_orig.body
            simple == SimpleFieldPass(p_orig.body, p_variables)
        IN  \A i \in 1..Len(b) :
                /\ IsMarker(b, i, "end") =>
                      /\ ScanIdle(ScanStep(ScanStateBefore(b, i), b[i]))
                      /\ ~ScanStep(ScanStateBefore(b, i), b[i]).has_name
                /\ FollowsInnerEnd(b, i) => p_body[i] = simple[i]
                /\ p_body[i] # simple[i] => ScanStateBefore(b, i).has_name

\* a field begun inside another field had its text run overwritten, and a
\* text run after its end marker, still before the outer end marker, was not
C21_Witness ==
    /\ Patched
    /\ \E g \in 1..Len(p_body), h \in 1..Len(p_body), i \in 1..Len(p_body) :
          /\ BeginsInside(p_orig.body, g, h)
          /\ FollowsInnerEnd(p_orig.body, i)
          /\ p_body[i] = p_orig.body[i]
          /\ \E k \in (h + 1)..(FirstEnd(p_orig.body, h) - 1) :
                p_body[k] # p_orig.body[k]
          /\ \E k \in (i + 1)..Len(p_body) :
                /\ IsMarker(p_orig.body, k, "end")
                /\ \A j \in (FirstEnd(p_orig.body, h) + 1)..(k - 1) :
                      ~IsMarker(p_orig.body, j, "begin")

----------------------------------------------------------------------------
(* The variable read scanner: get_docx_field_names reads document.xml as  *)
(* text and collects the names its regular expression finds.  The part is *)
(* text as an XML writer stores it: every element in its run, markup      *)
(* written as tokens with the blanks a tag holds, a quotation mark inside *)
(* an attribute value written as &quot;.                                  *)

MaxScan == 4      \* longest element stream given to the read scanner

\* "DOCVARIABLE A", nothing after the name
InstrTight == KEYWORD \o <<" ", "A">>
\* a paragraph that mentions the keyword: "DOCVARIABLE C "
MentionText == KEYWORD \o <<" ", "C", " ">>

\* attribute value escaping of the XML writer
EscapeAttr(s) == [i \in 1..Len(s) |-> IF s[i] = QUOTE THEN "&quot;" ELSE s[i]]

\* one element of the stream as it stands in the part
ElementXml(e) ==
    IF e.tag = "fldChar"
    THEN <<"<w:r>", "<w:fldChar", " ", "w:fldCharType=", QUOTE>>
             \o <<e.fldCharType, QUOTE, "/>", "</w:r>">>
    ELSE IF e.tag = "instrText"
    THEN <<"<w:r>", "<w:instrText>">> \o e.text \o <<"</w:instrText>", "</w:r>">>
    ELSE IF e.inSimple
    THEN <<"<w:fldSimple", " ", "w:instr=", QUOTE>> \o EscapeAttr(e.instr)
             \o <<QUOTE, ">", "<w:r>", "<w:t>">> \o e.text
             \o <<"</w:t>", "</w:r>", "</w:fldSimple>">>
    ELSE <<"<w:r>", "<w:t>">> \o e.text \o <<"</w:t>", "</w:r>">>

\* doc_file.read().decode('utf-8')
RECURSIVE DocumentXml(_)
DocumentXml(elems) ==
    IF elems = <<>> THEN <<>> ELSE ElementXml(Head(elems)) \o DocumentXml(Tail(elems))

\* re.findall(r'DOCVARIABLE\s+(\S+)', content): group 1 of every match,
\* left to right, the search resuming where the last match ended
RECURSIVE FindAll(_, _)
FindAll(content, from) ==
    LET hits == {i \in from..Len(content) : MatchesAt(content, i)}
    IN  IF hits = {}
        THEN <<>>
        ELSE LET i == CHOOSE h \in hits : \A g \in hits : h <= g
                 k == SkipSpace(content, i + Len(KEYWORD))
             IN  <<GroupAt(content, i)>> \o FindAll(content, SkipNonSpace(content, k))

\* the loop over the matches: strip the quotes, keep a name that is not
\* empty and not yet in the list
RECURSIVE CollectNames(_, _)
CollectNames(matches, field_names) ==
    IF matches = <<>>
    THEN field_names
    ELSE LET var_name == StripQuotes(Head(matches))
         IN  CollectNames(Tail(matches),
                 IF var_name # <<>> /\ \A j \in 1..Len(field_names) : field_names[j] # var_name
                 THEN Append(field_names, var_name)
                 ELSE field_names)

\* get_docx_field_names on an archive whose document.xml holds elems
GetDocxFieldNames(elems) == CollectNames(FindAll(DocumentXml(elems), 1), <<>>)

\* the names the display pass takes as the variable of a field of elems:
\* var_name of a matching fldSimple, current_var_name set by the second loop
DisplayPassNames(elems) ==
    {DocVarMatch(elems[i].instr).name :
        i \in {j \in 1..Len(elems) :
                  elems[j].inSimple /\ DocVarMatch(elems[j].instr).matched}}
    \cup
    {DocVarMatch(elems[i].text).name :
        i \in {j \in 1..Len(elems) :
                  /\ elems[j].tag = "instrText"
                  /\ ScanStateBefore(elems, j).in_field
                  /\ DocVarMatch(elems[j].text).matched}}

ScanElems ==
    { FldChar("begin"), FldChar("separate"), FldChar("end"),
      InstrText(InstrA), InstrText(InstrB), InstrText(InstrTight),
      T(OldText), T(MentionText),
      SimpleT(InstrA, OldText), SimpleT(InstrB, OldText) }
ScanBodies == UNION { [1..n -> ScanElems] : n \in 0..MaxScan }

InitScan ==
    /\ s_body \in ScanBodies
    /\ s_names = <<>>
    /\ s_shown = {}
    /\ s_stage = "ready"
    /\ CellIdle
    /\ RaceIdle
    /\ PatchIdle
    /\ DocxIdle
    /\ UsageIdle
    /\ RangeIdle
    /\ GuidIdle
    /\ ReconcileIdle
    /\ SyncIdle

\* get_docx_field_names(docx_path): the archive is opened for reading only
ScanFieldNames ==
    /\ s_stage = "ready"
    /\ s_names' = GetDocxFieldNames(s_body)
    /\ s_stage' = "scanned"
    /\ UNCHANGED <<s_body, s_shown>>
    /\ UNCHANGED <<cvars, kvars, pvars, dvars, uvars, rvars, gvars, bvars, yvars>>

\* the display pass of _update_document_xml over the same body
ScanDisplayPass ==
    /\ s_stage = "scanned"
    /\ s_shown' = DisplayPassNames(s_body)
    /\ s_stage' = "compared"
    /\ UNCHANGED <<s_body, s_names>>
    /\ UNCHANGED <<cvars, kvars, pvars, dvars, uvars, rvars, gvars, bvars, yvars>>

NextScan == ScanFieldNames \/ ScanDisplayPass

SpecScan == InitScan /\ [][NextScan]_vars

\* C11: get_docx_field_names returns every name at most once, and the set
\* of names it returns is the set of names the display pass takes as the
\* variable of a simple or complex field of the same body.
C11_ScannerAgreesWithPatcher ==
    s_stage = "compared" =>
        /\ \A i, j \in 1..Len(s_names) : s_names[i] = s_names[j] => i = j
        /\ {s_names[i] : i \in 1..Len(s_names)} = s_shown

\* the positions of the elements of b that carry a field instruction
InstructionsOf(b) ==
    {i \in 1..Len(b) : b[i].tag = "instrText" \/ (b[i].tag = "t" /\ b[i].inSimple)}

InstructionAt(b, i) == IF b[i].tag = "instrText" THEN b[i].text ELSE b[i].instr

\* the tokens of an instruction that stand right after the keyword and
\* blanks: from k to l there is no blank, and a blank or the end follows
TokenAfterKeyword(instr, i, k, l) ==
    /\ HasKeywordAt(instr, i)
    /\ i + Len(KEYWORD) < k
    /\ k <= l
    /\ l <= Len(instr)
    /\ \A j \in (i + Len(KEYWORD))..(k - 1) : instr[j] \in WhiteSpace
    /\ \A j \in k..l : instr[j] \notin WhiteSpace
    /\ l = Len(instr) \/ instr[l + 1] \in WhiteSpace

\* the names the rule gives for an instruction: the first token after the
\* leftmost keyword that has one, without the quotation marks around it
NamesByRule(instr) ==
    {StripQuotes(SubSeq(instr, w[2], w[3])) :
        w \in {v \in (1..Len(instr)) \X (1..Len(instr)) \X (1..Len(instr)) :
                  /\ TokenAfterKeyword(instr, v[1], v[2], v[3])
                  /\ \A u \in (1..Len(instr)) \X (1..Len(instr)) \X (1..Len(instr)) :
                        TokenAfterKeyword(instr, u[1], u[2], u[3]) => v[1] <= u[1]}}

\* C22: for a body with one instruction, standing in a fldSimple or in the
\* instruction part of a complex field, and no other text, the name the
\* display pass takes and the name the read scanner returns are both the
\* first blank-delimited token after the keyword with the quotation marks
\* around it stripped, and no name when the keyword is missing.
C22_SameNameEverywhere ==
    (/\ s_stage = "compared"
     /\ Cardinality(InstructionsOf(s_body)) = 1
     /\ \A i \in 1..Len(s_body) :
           /\ s_body[i].tag = "t" => s_body[i].inSimple
           /\ s_body[i].tag = "instrText" => ScanInField(ScanStateBefore(s_body, i)))
    => LET i == CHOOSE j \in InstructionsOf(s_body) : TRUE
       IN  /\ s_shown = NamesByRule(InstructionAt(s_body, i))
           /\ {s_names[j] : j \in 1..Len(s_names)} = NamesByRule(InstructionAt(s_body, i))

----------------------------------------------------------------------------
(* The tabular range reader (read_range_as_variables) and the single-cell  *)
(* read (read_cell_value).  A cell value is None, a string, an int or a    *)
(* float; a float is held in tenths, so that 120 stands for 12.0 and 125   *)
(* for 12.5.                                                               *)

MaxRows == 7        \* most rows of a sheet before its empty remainder
MaxMixedRows == 2   \* most rows of a sheet that mixes every kind of cell

\* max_empty_rows = 5
MaxEmptyRows == 5
\* the safety limit: row > start_row + 1000
SafetyLimit == 1000

NoneCell == [type |-> "none", text |-> <<>>, num |-> 0]
StrCell(chars) == [type |-> "str", text |-> chars, num |-> 0]
IntCell(n) == [type |-> "int", text |-> <<>>, num |-> n]
FloatCell(tenths) == [type |-> "float", text |-> <<>>, num |-> tenths]

Digits == <<"0", "1", "2", "3", "4", "5", "6", "7", "8", "9">>

\* str(n) of a natural number
RECURSIVE NatStr(_)
NatStr(n) == IF n < 10 THEN <<Digits[n + 1]>> ELSE NatStr(n \div 10) \o <<Digits[(n % 10) + 1]>>

Abs(n) == IF n < 0 THEN 0 - n ELSE n

\* str(n) of an int
IntStr(n) == IF n < 0 THEN <<"-">> \o NatStr(Abs(n)) ELSE NatStr(n)

\* int(value) of a float: the fraction is cut off
IntOfFloat(tenths) == IF tenths < 0 THEN 0 - (Abs(tenths) \div 10) ELSE tenths \div 10

\* str(value) of a float
FloatStr(tenths) ==
    (IF tenths < 0 THEN <<"-">> ELSE <<>>)
        \o NatStr(Abs(tenths) \div 10) \o <<".">> \o <<Digits[(Abs(tenths) % 10) + 1]>>

\* str(value) of a cell value that is not None
PyStr(value) ==
    IF value.type = "str" THEN value.text
    ELSE IF value.type = "int" THEN IntStr(value.num)
    ELSE FloatStr(value.num)

RECURSIVE LStrip(_)
LStrip(chars) ==
    IF Len(chars) > 0 /\ chars[1] \in WhiteSpace THEN LStrip(Tail(chars)) ELSE chars

RECURSIVE RStrip(_)
RStrip(chars) ==
    IF Len(chars) > 0 /\ chars[Len(chars)] \in WhiteSpace
    THEN RStrip(SubSeq(chars, 1, Len(chars) - 1))
    ELSE chars

\* str.strip()
Strip(chars) == RStrip(LStrip(chars))

\* str.replace(' ', '_')
ReplaceSpaces(chars) == [i \in 1..Len(chars) |-> IF chars[i] = " " THEN "_" ELSE chars[i]]

\* a wrong rendering of a float: always str(value)
FloatTextRaw(tenths) == FloatStr(tenths)

\* lines 136-138 and 322-325: a float that equals its int is written as the int
FloatText(tenths) ==
    IF tenths = 10 * IntOfFloat(tenths) THEN IntStr(IntOfFloat(tenths)) ELSE FloatStr(tenths)

\* read_cell_value, lines 130-140: what it returns for the value of the cell
ReadCellValue(value) ==
    IF value.type = "none" THEN <<>>
    ELSE IF value.type = "float" THEN FloatText(value.num)
    ELSE PyStr(value)

\* lines 305: name_value is None or str(name_value).strip() == ""
EmptyName(name_value) == name_value.type = "none" \/ Strip(PyStr(name_value)) = <<>>

\* line 314
NameOf(name_value) == ReplaceSpaces(Strip(PyStr(name_value)))

\* lines 318-327
ValueOf(value) ==
    IF value.type = "none" THEN <<>>
    ELSE IF value.type = "float" THEN FloatText(value.num)
    ELSE Strip(PyStr(value))

\* lines 331-335
UnitOf(unit) == IF unit.type = "none" THEN <<>> ELSE Strip(PyStr(unit))

\* a sheet row: the cells of the name, value and unit columns
Row(name, value, unit) == [name |-> name, value |-> value, unit |-> unit]

NoneRow == Row(NoneCell, NoneCell, NoneCell)
\* a name of blanks only, with a value beside it
BlankRow == Row(StrCell(<<" ", "\t">>), IntCell(9), NoneCell)
DataRow == Row(StrCell(<<"N">>), FloatCell(100), StrCell(<<"c", "m">>))

NameCells == {StrCell(<<" ", "W", " ", "A", " ">>), IntCell(7)}
ValueCells == {NoneCell, FloatCell(120), FloatCell(125), FloatCell(-20), IntCell(3), StrCell(<<" ", "v", " ">>)}
UnitCells == {NoneCell, StrCell(<<" ", "k", "g">>)}
MixedRows == {Row(n, v, u) : n \in NameCells, v \in ValueCells, u \in UnitCells}

\* ws[f"{col}{row}"]: every row of the sheet can be asked for
RowAt(sheet, row) == IF row <= Len(sheet.rows) THEN sheet.rows[row] ELSE sheet.rest

Sheet(rows, rest) == [rows |-> rows, rest |-> rest]

\* sheets that end in empty rows, built from empty, blank and data rows
PlainSheets ==
    {Sheet(rows, NoneRow) :
        rows \in UNION {[1..n -> {NoneRow, BlankRow, DataRow}] : n \in 0..MaxRows}}

\* sheets that mix the kinds of cells
MixedSheets ==
    {Sheet(rows, NoneRow) : rows \in UNION {[1..n -> MixedRows] : n \in 1..MaxMixedRows}}

\* sheets whose name column is filled in every row from some row on
EndlessSheets == {Sheet(<<>>, DataRow), Sheet(<<NoneRow, NoneRow>>, DataRow)}

InitRange ==
    /\ \/ r_sheet \in PlainSheets /\ r_start \in {1, 2}
       \/ r_sheet \in MixedSheets /\ r_start = 1
       \/ r_sheet \in EndlessSheets /\ r_start = 1
    /\ r_row = r_start
    /\ r_empty_rows = 0
    /\ r_variables = <<>>
    /\ r_pc = "loop"
    /\ r_last_read = 0
    /\ r_cell = <<>>
    /\ CellIdle
    /\ RaceIdle
    /\ PatchIdle
    /\ DocxIdle
    /\ UsageIdle
    /\ ScannerIdle
    /\ GuidIdle
    /\ ReconcileIdle
    /\ SyncIdle

\* a wrong skip rule: empty rows are skipped after data as well
MaySkipAfterData(variables, empty_rows) == empty_rows < MaxEmptyRows

\* line 307: not variables and empty_rows < max_empty_rows
MaySkip(variables, empty_rows) == variables = <<>> /\ empty_rows < MaxEmptyRows

\* a wrong safety limit: one row too late
LimitReachedLate(row, start_row) == row > start_row + SafetyLimit + 1

\* line 347: row > start_row + 1000
LimitReached(row, start_row) == row > start_row + SafetyLimit

\* lines 301-310: the name cell is empty and the row is skipped
RangeSkip ==
    /\ r_pc = "loop"
    /\ EmptyName(RowAt(r_sheet, r_row).name)
    /\ MaySkip(r_variables, r_empty_rows)
    /\ r_empty_rows' = r_empty_rows + 1
    /\ r_row' = r_row + 1
    /\ r_last_read' = r_row
    /\ UNCHANGED <<r_sheet, r_start, r_variables, r_pc, r_cell>>
    /\ UNCHANGED <<cvars, kvars, pvars, dvars, uvars, svars, gvars, bvars, yvars>>

\* lines 301-312 and 350-351: the name cell is empty and the scan ends
RangeStop ==
    /\ r_pc = "loop"
    /\ EmptyName(RowAt(r_sheet, r_row).name)
    /\ ~MaySkip(r_variables, r_empty_rows)
    /\ r_pc' = "returned"
    /\ r_last_read' = r_row
    /\ UNCHANGED <<r_sheet, r_start, r_row, r_empty_rows, r_variables, r_cell>>
    /\ UNCHANGED <<cvars, kvars, pvars, dvars, uvars, svars, gvars, bvars, yvars>>

\* lines 301-348: the row is appended; the scan ends at the safety limit
RangeCapture ==
    /\ r_pc = "loop"
    /\ ~EmptyName(RowAt(r_sheet, r_row).name)
    /\ r_variables' = Append(r_variables,
           [name |-> NameOf(RowAt(r_sheet, r_row).name),
            value |-> ValueOf(RowAt(r_sheet, r_row).value),
            unit |-> UnitOf(RowAt(r_sheet, r_row).unit),
            row |-> r_row])
    /\ r_row' = r_row + 1
    /\ r_last_read' = r_row
    /\ r_pc' = IF LimitReached(r_row + 1, r_start) THEN "returned" ELSE "loop"
    /\ UNCHANGED <<r_sheet, r_start, r_empty_rows, r_cell>>
    /\ UNCHANGED <<cvars, kvars, pvars, dvars, uvars, svars, gvars, bvars, yvars>>

\* read_cell_value on a cell of the value column of the same sheet
ReadCell ==
    /\ r_pc = "returned"
    /\ r_cell = <<>>
    /\ \E row \in 1..(Len(r_sheet.rows) + 1) :
          r_cell' = [row |-> row, text |-> ReadCellValue(RowAt(r_sheet, row).value)]
    /\ UNCHANGED <<r_sheet, r_start, r_row, r_empty_rows, r_variables, r_pc, r_last_read>>
    /\ UNCHANGED <<cvars, kvars, pvars, dvars, uvars, svars, gvars, bvars, yvars>>

NextRange == RangeSkip \/ RangeStop \/ RangeCapture \/ ReadCell

SpecRange == InitRange /\ [][NextRange]_vars

\* the loop of the range reader runs whenever it can
SpecRangeFair == SpecRange /\ WF_vars(RangeSkip \/ RangeStop \/ RangeCapture)

----------------------------------------------------------------------------
(* Claims about the range reader (checked under SpecRange, SpecRangeFair) *)

RangeReturned == r_pc = "returned"

Least(S) == CHOOSE x \in S : \A y \in S : x <= y

\* the first row with a name among the start row and the five below it, or 0
FirstDataRow ==
    LET found == {row \in r_start..(r_start + MaxEmptyRows) :
                     ~EmptyName(RowAt(r_sheet, row).name)}
    IN  IF found = {} THEN 0 ELSE Least(found)

\* the first row below f without a name, or 0 when every row below f has one
FirstEmptyAfter(f) ==
    LET found == {row \in (f + 1)..(Len(r_sheet.rows) + f + 1) :
                     EmptyName(RowAt(r_sheet, row).name)}
    IN  IF found = {} THEN 0 ELSE Least(found)

\* the rows of the result are the sheet rows first..last, in order
ResultRowsAre(first, last) ==
    /\ Len(r_variables) = last - first + 1
    /\ \A i \in 1..Len(r_variables) : r_variables[i].row = first + i - 1

\* C12 as stated: at most 5 leading empty rows are skipped, and the result
\* is the whole run of named rows from the first named row to the row before
\* the first empty one, which is the last row read.
C12_SkipThenStop ==
    RangeReturned =>
        /\ r_empty_rows <= MaxEmptyRows
        /\ IF FirstDataRow = 0
           THEN r_variables = <<>> /\ r_last_read = r_start + MaxEmptyRows
           ELSE /\ FirstEmptyAfter(FirstDataRow) # 0
                /\ ResultRowsAre(FirstDataRow, FirstEmptyAfter(FirstDataRow) - 1)
                /\ r_last_read = FirstEmptyAfter(FirstDataRow)

\* C12 amended: the same, with the run cut off at the row 1000 below the
\* start row when it is longer than that.
C12_SkipThenStopWithinLimit ==
    RangeReturned =>
        /\ r_empty_rows <= MaxEmptyRows
        /\ IF FirstDataRow = 0
           THEN r_variables = <<>> /\ r_last_read = r_start + MaxEmptyRows
           ELSE LET t == FirstEmptyAfter(FirstDataRow)
                IN  IF t # 0 /\ t <= r_start + SafetyLimit
                    THEN ResultRowsAre(FirstDataRow, t - 1) /\ r_last_read = t
                    ELSE /\ ResultRowsAre(FirstDataRow, r_start + SafetyLimit)
                         /\ r_last_read = r_start + SafetyLimit

\* two empty rows were skipped, two rows captured, and a named row below
\* the terminating empty row was not read
C12_Witness ==
    /\ RangeReturned
    /\ r_empty_rows = 2
    /\ Len(r_variables) = 2
    /\ r_last_read < Len(r_sheet.rows)
    /\ ~EmptyName(RowAt(r_sheet, r_last_read + 1).name)

\* C13: the scan returns on every sheet, and no cell of a row more than
\* 1000 below the start row is ever read.
C13_Terminates ==
    /\ <>RangeReturned
    /\ [](r_last_read <= r_start + SafetyLimit)

\* the scan of a sheet with a name in every row returned at the limit
C13_Witness ==
    /\ RangeReturned
    /\ r_sheet = Sheet(<<>>, DataRow)
    /\ r_last_read = r_start + SafetyLimit
    /\ Len(r_variables) = SafetyLimit + 1

\* what the name cells and the numeric cells of the sheets read as
NameAsRead ==
    (StrCell(<<" ", "W", " ", "A", " ">>) :> <<"W", "_", "A">>)
        @@ (IntCell(7) :> <<"7">>)
        @@ (StrCell(<<"N">>) :> <<"N">>)

NumberAsRead ==
    (FloatCell(120) :> <<"1", "2">>)
        @@ (FloatCell(125) :> <<"1", "2", ".", "5">>)
        @@ (FloatCell(-20) :> <<"-", "2">>)
        @@ (FloatCell(100) :> <<"1", "0">>)

\* C14: every emitted row has the trimmed name with underscores for spaces,
\* the sheet row it was read from, an empty unit for an absent unit cell and
\* an empty value for an empty value cell; a row with an empty value is
\* emitted all the same; an integral float is written without a decimal
\* point, by the range reader and by read_cell_value alike.
C14_RowsAsEmitted ==
    /\ \A i \in 1..Len(r_variables) :
          LET cells == RowAt(r_sheet, r_variables[i].row)
          IN  /\ r_variables[i].name = NameAsRead[cells.name]
              /\ cells.unit = NoneCell => r_variables[i].unit = <<>>
              /\ cells.value = NoneCell => r_variables[i].value = <<>>
              /\ cells.value.type = "float"
                    => r_variables[i].value = NumberAsRead[cells.value]
    /\ (RangeReturned /\ r_sheet \in MixedSheets)
          => ResultRowsAre(1, Len(r_sheet.rows))
    /\ r_cell # <<>> =>
          LET value == RowAt(r_sheet, r_cell.row).value
          IN  /\ value = NoneCell => r_cell.text = <<>>
              /\ value.type = "float" => r_cell.text = NumberAsRead[value]

\* a row with an empty value cell and no unit was emitted, then a row with
\* an integral float, and read_cell_value read that float
C14_Witness ==
    /\ RangeReturned
    /\ Len(r_variables) = 2
    /\ r_variables[1] = [name |-> <<"W", "_", "A">>, value |-> <<>>, unit |-> <<>>, row |-> 1]
    /\ r_variables[2].value = <<"1", "2">>
    /\ r_variables[2].row = 2
    /\ r_cell # <<>>
    /\ r_cell.row = 2
    /\ r_cell.text = <<"1", "2">>

----------------------------------------------------------------------------
(* Spreadsheet identity: get_excel_guid, set_excel_guid and                *)
(* get_or_create_excel_guid on workbooks that are missing, cannot be       *)
(* loaded, cannot be saved, or can be both loaded and saved.               *)

MaxGuidCalls == 3   \* most calls of get_or_create_excel_guid in one behaviour

Book1 == "book1.xlsx"
Book2 == "book2.xlsx"
Books == {Book1, Book2}

\* the return value None, and a property value that is the empty string
NoGuid == <<>>
StoredGuid == <<"g", "0">>

\* wb.custom_doc_props with and without the property TansuGUID
NoProperty == [present |-> FALSE, value |-> <<>>]
Property(value) == [present |-> TRUE, value |-> value]

Workbook(status, prop) == [status |-> status, prop |-> prop]

Workbooks ==
    {Workbook("missing", NoProperty)} \cup
    {Workbook(status, prop) :
        status \in {"unreadable", "readonly", "ok"},
        prop \in {NoProperty, Property(<<>>), Property(StoredGuid)}}

\* str(uuid.uuid4()): the n-th identifier generated
Uuid4(n) == <<"u">> \o NatStr(n)

\* a wrong lookup: the stored property is never found
GetExcelGuidBlind(book) == NoGuid

\* get_excel_guid
GetExcelGuid(book) ==
    IF book.status \in {"missing", "unreadable"} THEN NoGuid
    ELSE IF book.prop.present /\ book.prop.value # <<>> THEN book.prop.value
    ELSE NoGuid

\* set_excel_guid(file_path): the file is saved with the new identifier
SetExcelGuidSaves(book) == book.status = "ok"

InitGuid ==
    /\ x_files \in [Books -> Workbooks]
    /\ x_uuid = 0
    /\ x_log = <<>>
    /\ CellIdle
    /\ RaceIdle
    /\ PatchIdle
    /\ DocxIdle
    /\ UsageIdle
    /\ ScannerIdle
    /\ RangeIdle
    /\ ReconcileIdle
    /\ SyncIdle

LogEntry(path, ret, wrote) ==
    [path |-> path, had |-> x_files[path].prop, ret |-> ret, wrote |-> wrote]

\* get_or_create_excel_guid, lines 97-99: the stored identifier is returned
GuidFound ==
    \E path \in Books :
        /\ Len(x_log) < MaxGuidCalls
        /\ GetExcelGuid(x_files[path]) # NoGuid
        /\ x_log' = Append(x_log, LogEntry(path, GetExcelGuid(x_files[path]), FALSE))
        /\ UNCHANGED <<x_files, x_uuid>>
        /\ UNCHANGED <<cvars, kvars, pvars, dvars, uvars, svars, rvars, bvars, yvars>>

\* lines 97-102 with set_excel_guid 58-80: a new identifier is stored
GuidCreated ==
    \E path \in Books :
        /\ Len(x_log) < MaxGuidCalls
        /\ GetExcelGuid(x_files[path]) = NoGuid
        /\ x_files[path].status # "missing"
        /\ SetExcelGuidSaves(x_files[path])
        /\ x_uuid' = x_uuid + 1
        /\ x_files' = [x_files EXCEPT ![path].prop = Property(Uuid4(x_uuid + 1))]
        /\ x_log' = Append(x_log, LogEntry(path, Uuid4(x_uuid + 1), TRUE))
        /\ UNCHANGED <<cvars, kvars, pvars, dvars, uvars, svars, rvars, bvars, yvars>>

\* lines 97-102 with set_excel_guid 55-56 and 81-83: None is returned
GuidFailed ==
    \E path \in Books :
        /\ Len(x_log) < MaxGuidCalls
        /\ GetExcelGuid(x_files[path]) = NoGuid
        /\ x_files[path].status = "missing" \/ ~SetExcelGuidSaves(x_files[path])
        /\ x_uuid' = IF x_files[path].status = "missing" THEN x_uuid ELSE x_uuid + 1
        /\ x_log' = Append(x_log, LogEntry(path, NoGuid, FALSE))
        /\ UNCHANGED x_files
        /\ UNCHANGED <<cvars, kvars, pvars, dvars, uvars, svars, rvars, bvars, yvars>>

NextGuid == GuidFound \/ GuidCreated \/ GuidFailed

SpecGuid == InitGuid /\ [][NextGuid]_vars

\* the calls on one workbook, in order
CallsOn(path) == SelectSeq(x_log, LAMBDA c : c.path = path)

\* C15: a call on a workbook that carries an identifier returns it and does
\* not write the file; a new identifier is created and stored only when
\* none is present; so every call on a file that returns an identifier
\* returns the one the first such call returned, and the file is written at
\* most once.
C15_IdentityStable ==
    \A path \in Books :
        LET calls == CallsOn(path)
        IN  /\ \A i \in 1..Len(calls) :
                  /\ (calls[i].had.present /\ calls[i].had.value # <<>> /\ calls[i].ret # NoGuid)
                        => (calls[i].ret = calls[i].had.value /\ ~calls[i].wrote)
                  /\ calls[i].wrote => ~(calls[i].had.present /\ calls[i].had.value # <<>>)
            /\ \A i, j \in 1..Len(calls) :
                  (calls[i].ret # NoGuid /\ calls[j].ret # NoGuid) => calls[i].ret = calls[j].ret
            /\ Cardinality({i \in 1..Len(calls) : calls[i].wrote}) <= 1

\* a workbook without identifier got one in the first call, and the two
\* later calls returned it without writing
C15_Witness ==
    /\ Len(CallsOn(Book1)) = 3
    /\ ~CallsOn(Book1)[1].had.present
    /\ CallsOn(Book1)[1].wrote
    /\ CallsOn(Book1)[2].ret = CallsOn(Book1)[1].ret
    /\ CallsOn(Book1)[3].ret = CallsOn(Book1)[1].ret
    /\ ~CallsOn(Book1)[2].wrote /\ ~CallsOn(Book1)[3].wrote
    /\ x_files[Book1].prop.value = CallsOn(Book1)[1].ret

----------------------------------------------------------------------------
(* Two callers of get_or_create_excel_guid on the same path, not           *)
(* serialized: each call reads the workbook (get_excel_guid) and, when it  *)
(* found no identifier, loads, changes and saves it (set_excel_guid).      *)

Callers == {1, 2}

\* a wrong save: a property that is there is kept
SavePropertyKeeps(book, guid) ==
    IF book.prop.present THEN book ELSE [book EXCEPT !.prop = Property(guid)]

\* set_excel_guid, lines 70-78: the property is removed, appended with the
\* new value and the workbook saved
SaveProperty(book, guid) == [book EXCEPT !.prop = Property(guid)]

InitRace ==
    /\ x_files \in [Books -> Workbooks]
    /\ x_uuid = 0
    /\ x_log = <<>>
    /\ k_pc = [p \in Callers |-> "get"]
    /\ k_ret = [p \in Callers |-> NoGuid]
    /\ CellIdle
    /\ PatchIdle
    /\ DocxIdle
    /\ UsageIdle
    /\ ScannerIdle
    /\ RangeIdle
    /\ ReconcileIdle
    /\ SyncIdle

\* get_or_create_excel_guid, lines 97-99: get_excel_guid(file_path)
RaceGet ==
    \E p \in Callers :
        /\ k_pc[p] = "get"
        /\ k_ret' = [k_ret EXCEPT ![p] = GetExcelGuid(x_files[Book1])]
        /\ k_pc' = [k_pc EXCEPT ![p] =
                       IF GetExcelGuid(x_files[Book1]) # NoGuid THEN "returned" ELSE "set"]
        /\ UNCHANGED gvars
        /\ UNCHANGED <<cvars, pvars, dvars, uvars, svars, rvars, bvars, yvars>>

\* line 102 with set_excel_guid 55-80: a new identifier is saved and returned
RaceSetSaves ==
    \E p \in Callers :
        /\ k_pc[p] = "set"
        /\ SetExcelGuidSaves(x_files[Book1])
        /\ x_uuid' = x_uuid + 1
        /\ x_files' = [x_files EXCEPT ![Book1] = SaveProperty(@, Uuid4(x_uuid + 1))]
        /\ x_log' = Append(x_log, LogEntry(Book1, Uuid4(x_uuid + 1), TRUE))
        /\ k_ret' = [k_ret EXCEPT ![p] = Uuid4(x_uuid + 1)]
        /\ k_pc' = [k_pc EXCEPT ![p] = "returned"]
        /\ UNCHANGED <<cvars, pvars, dvars, uvars, svars, rvars, bvars, yvars>>

\* line 102 with set_excel_guid 55-56 and 81-83: None is returned
RaceSetFails ==
    \E p \in Callers :
        /\ k_pc[p] = "set"
        /\ ~SetExcelGuidSaves(x_files[Book1])
        /\ x_uuid' = IF x_files[Book1].status = "missing" THEN x_uuid ELSE x_uuid + 1
        /\ k_ret' = [k_ret EXCEPT ![p] = NoGuid]
        /\ k_pc' = [k_pc EXCEPT ![p] = "returned"]
        /\ UNCHANGED <<x_files, x_log>>
        /\ UNCHANGED <<cvars, pvars, dvars, uvars, svars, rvars, bvars, yvars>>

NextRace == RaceGet \/ RaceSetSaves \/ RaceSetFails

SpecRace == InitRace /\ [][NextRace]_vars

\* C26: two calls on the same path that are not serialized can each save an
\* identifier of their own.  Whenever the two callers have returned different
\* identifiers, both found none in the file and both saved one, and the file
\* holds the one saved last; the file always holds the last identifier saved.
C26_LastSaveWins ==
    /\ x_log # <<>> => x_files[Book1].prop = Property(x_log[Len(x_log)].ret)
    /\ (/\ \A p \in Callers : k_pc[p] = "returned" /\ k_ret[p] # NoGuid
        /\ k_ret[1] # k_ret[2])
       => /\ Len(x_log) = 2
          /\ {x_log[1].ret, x_log[2].ret} = {k_ret[1], k_ret[2]}
          /\ GetExcelGuid([x_files[Book1] EXCEPT !.prop = x_log[1].had]) = NoGuid

\* both callers found no identifier, each saved one: they hold different
\* identifiers and the file holds the second one only
C26_Witness ==
    /\ \A p \in Callers : k_pc[p] = "returned" /\ k_ret[p] # NoGuid
    /\ k_ret[1] # k_ret[2]
    /\ Len(x_log) = 2
    /\ x_log[1].wrote /\ x_log[2].wrote
    /\ x_files[Book1].prop.value = x_log[2].ret
    /\ x_files[Book1].prop.value # x_log[1].ret

----------------------------------------------------------------------------
(* The archive codec: files, packages and the temporary working copy *)

SettingsPart == "word/settings.xml"
DocumentPart == "word/document.xml"
ContentTypes == "[Content_Types].xml"
ImagePart == "word/media/image1.png"
EmptyFolder == "customXml/"

XmlParts == {SettingsPart, DocumentPart}

\* a file that does not exist, and one that is no readable archive
Absent == [kind |-> "absent", entries |-> <<>>]
Truncated == [kind |-> "truncated", entries |-> <<>>]
PlainFile == [kind |-> "text", entries |-> <<>>]

\* the bytes of an XML part: its declaration style and the tree they parse to
Xml(style, tree) == [decl |-> style, tree |-> tree]
Raw(bytes) == [decl |-> "none", tree |-> bytes]

FileEntry(method, data) == [dir |-> FALSE, method |-> method, data |-> data]
DirEntry == [dir |-> TRUE, method |-> "stored", data |-> Raw(<<>>)]

Package(entries) == [kind |-> "zip", entries |-> entries]

\* etree.parse / tree.write(..., xml_declaration=True, encoding='UTF-8', standalone='yes')
ParseXml(data) == data.tree
WriteXml(tree) == Xml("lxml", tree)

ComplexField(instr, text) ==
    << FldChar("begin"), InstrText(instr), FldChar("separate"), T(text), FldChar("end") >>

HeadingText == <<"h">>

BodyABC ==
    << T(HeadingText) >> \o ComplexField(InstrA, OldText)
        \o << SimpleT(InstrB, OldText) >> \o ComplexField(InstrC, OldText)
BodyB == << SimpleT(InstrB, OldText), T(HeadingText) >>

DefsAC == << DocVar(NameA, OldText), DocVar(NameC, OldText) >>
DefsB == << DocVar(NameB, OldText) >>

\* a package as Word saves it, with a stored image
WordPackage ==
    Package((ContentTypes :> FileEntry("deflated", Raw(<<"t">>)))
         @@ (SettingsPart :> FileEntry("deflated", Xml("word", DefsAC)))
         @@ (DocumentPart :> FileEntry("deflated", Xml("word", BodyABC)))
         @@ (ImagePart :> FileEntry("stored", Raw(<<"i">>))))

\* a package of another producer: no settings part, an empty folder entry
FolderPackage ==
    Package((ContentTypes :> FileEntry("deflated", Raw(<<"t">>)))
         @@ (DocumentPart :> FileEntry("deflated", Xml("word", BodyB)))
         @@ (EmptyFolder :> DirEntry))

\* a package this program wrote before: every entry deflated, lxml declarations
SavedPackage ==
    Package((ContentTypes :> FileEntry("deflated", Raw(<<"t">>)))
         @@ (SettingsPart :> FileEntry("deflated", Xml("lxml", DefsB)))
         @@ (DocumentPart :> FileEntry("deflated", Xml("lxml", BodyB))))

Packages == {WordPackage, FolderPackage, SavedPackage}

\* paths: a stem and an extension
DocPath == [stem |-> "report", ext |-> ".docx"]
TextPath == [stem |-> "notes", ext |-> ".txt"]
GonePath == [stem |-> "gone", ext |-> ".docx"]

\* docx_path + '.bak'
BackupPath(path) == [path EXCEPT !.ext = path.ext \o ".bak"]

\* str.lower() on the extensions in use
Lower(ext) == IF ext = ".DOCX" THEN ".docx" ELSE ext

\* docx_path.lower().endswith('.docx')
EndsWithDocx(path) == Lower(path.ext) = ".docx"

\* os.path.exists
Exists(files, path) == path \in DOMAIN files /\ files[path].kind # "absent"

CallPaths == {DocPath, TextPath, GonePath}
AllPaths == CallPaths \cup {BackupPath(DocPath)}

\* a wrong backup: an existing backup is kept
Copy2NoOverwrite(files, src, dst) ==
    IF Exists(files, dst) THEN files ELSE [files EXCEPT ![dst] = files[src]]

\* shutil.copy2(src, dst)
Copy2(files, src, dst) == [files EXCEPT ![dst] = files[src]]

NoTempDir == [files |-> <<>>, dirs |-> {}]

FileNames(package) == {n \in DOMAIN package.entries : ~package.entries[n].dir}
DirNames(package) == {n \in DOMAIN package.entries : package.entries[n].dir}

\* zip_ref.extractall(temp_dir)
ExtractAll(package) ==
    [files |-> [n \in FileNames(package) |-> package.entries[n].data],
     dirs |-> DirNames(package)]

\* a wrong repack: only the two XML parts are written
ZipOnlyXml(files) ==
    Package([n \in DOMAIN files \cap XmlParts |-> FileEntry("deflated", files[n])])

\* the archive _repack_docx writes from the files os.walk finds
ZipFiles(files) ==
    Package([n \in DOMAIN files |-> FileEntry("deflated", files[n])])

\* the archives an interrupted write can leave: nothing readable, or a
\* closed archive that misses files
Interrupted(files) ==
    {Truncated} \cup
    {ZipFiles([n \in S |-> files[n]]) : S \in (SUBSET DOMAIN files) \ {DOMAIN files}}

----------------------------------------------------------------------------
(* update_docx_variables, one statement at a time *)

Init ==
    /\ \E package \in Packages :
          /\ fs = [path \in AllPaths |->
                      IF path = DocPath THEN package
                      ELSE IF path = TextPath THEN PlainFile
                      ELSE Absent]
          /\ history = [calls |-> 0, names |-> FileNames(package), allBackup |-> TRUE]
    /\ pc = "idle"
    /\ call = [path |-> DocPath, variables |-> <<>>, backup |-> TRUE]
    /\ temp_dir = NoTempDir
    /\ result = "none"
    /\ rewritten = {}
    /\ pre = [doc |-> Absent, bak |-> Absent]
    /\ PatchIdle
    /\ OthersIdle
    /\ UsageIdle

\* the call begins: arguments bound, nothing done yet
Enter(path, variables, backup) ==
    /\ pc = "idle"
    /\ history.calls < MaxCalls
    /\ call' = [path |-> path, variables |-> variables, backup |-> backup]
    /\ history' = [history EXCEPT !.calls = @ + 1, !.allBackup = @ /\ backup]
    /\ rewritten' = {}
    /\ temp_dir' = NoTempDir
    /\ UNCHANGED fs
    /\ UNCHANGED <<pvars, uvars, xvars>>

\* an exception leaves the function; the TemporaryDirectory is removed
Raise(error) ==
    /\ pc' = "idle"
    /\ result' = error
    /\ temp_dir' = NoTempDir
    /\ UNCHANGED <<call, pre, history, rewritten>>
    /\ UNCHANGED <<pvars, uvars, xvars>>

\* lines 32-33: raise FileNotFoundError
CallMissing ==
    \E path \in CallPaths, variables \in UpdateMaps, backup \in BOOLEAN :
        /\ ~Exists(fs, path)
        /\ Enter(path, variables, backup)
        /\ pc' = "idle"
        /\ result' = "FileNotFoundError"
        /\ pre' = [doc |-> fs[path], bak |-> Absent]

\* lines 35-36: raise ValueError
CallNotDocx ==
    \E path \in CallPaths, variables \in UpdateMaps, backup \in BOOLEAN :
        /\ Exists(fs, path)
        /\ ~EndsWithDocx(path)
        /\ Enter(path, variables, backup)
        /\ pc' = "idle"
        /\ result' = "ValueError"
        /\ pre' = [doc |-> fs[path], bak |-> Absent]

\* lines 32-39: both checks pass
CallAccepted ==
    \E path \in CallPaths, variables \in UpdateMaps, backup \in BOOLEAN :
        /\ Exists(fs, path)
        /\ EndsWithDocx(path)
        /\ Enter(path, variables, backup)
        /\ pc' = IF backup THEN "backup" ELSE "extract"
        /\ result' = "running"
        /\ pre' = [doc |-> fs[path], bak |-> fs[BackupPath(path)]]

\* lines 40-41: shutil.copy2(docx_path, backup_path)
Backup ==
    /\ pc = "backup"
    /\ fs' = Copy2(fs, call.path, BackupPath(call.path))
    /\ pc' = "extract"
    /\ UNCHANGED <<call, temp_dir, result, rewritten, pre, history>>
    /\ UNCHANGED <<pvars, uvars, xvars>>

\* the copy raises: the backup is untouched or left incomplete
BackupFails ==
    /\ pc = "backup"
    /\ \E left \in {fs[BackupPath(call.path)], Truncated} :
          fs' = [fs EXCEPT ![BackupPath(call.path)] = left]
    /\ Raise("raised")

\* lines 46-47: zip_ref.extractall(temp_dir)
Extract ==
    /\ pc = "extract"
    /\ fs[call.path].kind = "zip"
    /\ temp_dir' = ExtractAll(fs[call.path])
    /\ pc' = "settings"
    /\ UNCHANGED <<fs, call, result, rewritten, pre, history>>
    /\ UNCHANGED <<pvars, uvars, xvars>>

\* line 46: zipfile.BadZipFile
ExtractBadZip ==
    /\ pc = "extract"
    /\ fs[call.path].kind # "zip"
    /\ UNCHANGED fs
    /\ Raise("raised")

\* lines 50-52: _update_settings_xml when the part exists
UpdateSettingsStep ==
    /\ pc = "settings"
    /\ IF SettingsPart \in DOMAIN temp_dir.files
       THEN /\ temp_dir' = [temp_dir EXCEPT !.files[SettingsPart] =
                   WriteXml(UpdateSettings(ParseXml(@), call.variables))]
            /\ rewritten' = rewritten \cup {SettingsPart}
       ELSE UNCHANGED <<temp_dir, rewritten>>
    /\ pc' = "document"
    /\ UNCHANGED <<fs, call, result, pre, history>>
    /\ UNCHANGED <<pvars, uvars, xvars>>

\* lines 55-57: _update_document_xml when the part exists
UpdateDocumentStep ==
    /\ pc = "document"
    /\ IF DocumentPart \in DOMAIN temp_dir.files
       THEN /\ temp_dir' = [temp_dir EXCEPT !.files[DocumentPart] =
                   WriteXml(UpdateDocument(ParseXml(@), call.variables))]
            /\ rewritten' = rewritten \cup {DocumentPart}
       ELSE UNCHANGED <<temp_dir, rewritten>>
    /\ pc' = "repack"
    /\ UNCHANGED <<fs, call, result, pre, history>>
    /\ UNCHANGED <<pvars, uvars, xvars>>

\* lines 143-144: os.remove(output_path)
RepackRemove ==
    /\ pc = "repack"
    /\ fs' = IF Exists(fs, call.path) THEN [fs EXCEPT ![call.path] = Absent] ELSE fs
    /\ pc' = "create"
    /\ UNCHANGED <<call, temp_dir, result, rewritten, pre, history>>
    /\ UNCHANGED <<pvars, uvars, xvars>>

\* line 147: zipfile.ZipFile(output_path, 'w', ...) creates the empty file
RepackCreate ==
    /\ pc = "create"
    /\ fs' = [fs EXCEPT ![call.path] = Truncated]
    /\ pc' = "write"
    /\ UNCHANGED <<call, temp_dir, result, rewritten, pre, history>>
    /\ UNCHANGED <<pvars, uvars, xvars>>

\* lines 148-152 and 62: every file written, the archive closed, return True
RepackWrite ==
    /\ pc = "write"
    /\ fs' = [fs EXCEPT ![call.path] = ZipFiles(temp_dir.files)]
    /\ pc' = "idle"
    /\ result' = "True"
    /\ temp_dir' = NoTempDir
    /\ UNCHANGED <<call, rewritten, pre, history>>
    /\ UNCHANGED <<pvars, uvars, xvars>>

\* an exception (I/O error, XML syntax error) in a step before the archive
\* is written: nothing on disk changes in that step
StepFails ==
    /\ pc \in {"extract", "settings", "document", "repack", "create"}
    /\ UNCHANGED fs
    /\ Raise("raised")

\* an exception while the new archive is written
WriteFails ==
    /\ pc = "write"
    /\ \E left \in Interrupted(temp_dir.files) :
          fs' = [fs EXCEPT ![call.path] = left]
    /\ Raise("raised")

Next ==
    \/ CallMissing
    \/ CallNotDocx
    \/ CallAccepted
    \/ Backup
    \/ BackupFails
    \/ Extract
    \/ ExtractBadZip
    \/ UpdateSettingsStep
    \/ UpdateDocumentStep
    \/ RepackRemove
    \/ RepackCreate
    \/ RepackWrite
    \/ StepFails
    \/ WriteFails

Spec == Init /\ [][Next]_vars

----------------------------------------------------------------------------
(* Claims about the archive codec (checked under Spec) *)

Returned == pc = "idle" /\ result = "True"
Failed == pc = "idle" /\ result \in {"raised", "FileNotFoundError", "ValueError"}
EmptyMap == DOMAIN call.variables = {}
BakNow == fs[BackupPath(DocPath)]

\* a complete version of the document: a readable archive with every file
\* of the package
Intact(file) == file.kind = "zip" /\ FileNames(file) = history.names

\* C1: after a call that raised, at whatever step, the file at docx_path
\* has exactly the content it had before the call.
C1_FailedCallLeavesOriginal == Failed => fs[call.path] = pre.doc

\* C2: while a call runs, docx_path holds the complete original archive or
\* the complete new one, never a missing, empty or partial file.
C2_OldOrNewArchiveOnly ==
    pc # "idle" =>
        \/ fs[call.path] = pre.doc
        \/ pc \in {"repack", "create", "write"} /\ fs[call.path] = ZipFiles(temp_dir.files)

\* C3: after any sequence of calls that all asked for a backup, failed and
\* retried ones included, docx_path or its .bak is an intact document.
C3_OneIntactCopy ==
    (pc = "idle" /\ history.allBackup) => (Intact(fs[DocPath]) \/ Intact(BakNow))

\* C4: with backup requested and the path checks passed, the .bak holds the
\* content docx_path had when the call began from before the extraction
\* on, whatever .bak held earlier, and still does when the call has returned.
C4_BackupBeforeWork ==
    call.backup =>
        /\ pc \in {"extract", "settings", "document", "repack", "create", "write"}
              => BakNow = pre.doc
        /\ Returned => BakNow = pre.doc

\* a successful call replaced an earlier, different backup
C4_Witness ==
    /\ Returned
    /\ call.backup
    /\ pre.bak.kind = "zip"
    /\ pre.bak # pre.doc
    /\ BakNow = pre.doc
    /\ fs[DocPath] # pre.doc

\* C8 as stated: an empty update map leaves the file identical and rewrites
\* no part.
C8_EmptyMapIdentical ==
    (Returned /\ EmptyMap) => (fs[call.path] = pre.doc /\ rewritten = {})

\* the two archives hold the same files, each parsing to the same content
SameContent(a, b) ==
    /\ a.kind = "zip" /\ b.kind = "zip"
    /\ FileNames(a) = FileNames(b)
    /\ \A n \in FileNames(a) :
          ParseXml(a.entries[n].data) = ParseXml(b.entries[n].data)

\* C8 amended: an empty update map leaves the content of every file of the
\* package as it was, while both XML parts that exist are written back.
C8_EmptyMapSameContent ==
    (Returned /\ EmptyMap) =>
        /\ SameContent(fs[call.path], pre.doc)
        /\ rewritten = FileNames(pre.doc) \cap XmlParts

\* an empty map was applied to a package with fields and both parts, and
\* the file is not the one it was
C8_Witness ==
    /\ Returned
    /\ EmptyMap
    /\ rewritten = XmlParts
    /\ fs[call.path] # pre.doc
    /\ SameContent(fs[call.path], pre.doc)

\* C10 as stated: same entry names, other entries unchanged, every entry
\* with the compression scheme it had.
C10_RepackPreservesAll ==
    Returned =>
        /\ DOMAIN fs[call.path].entries = DOMAIN pre.doc.entries
        /\ \A n \in DOMAIN pre.doc.entries \ XmlParts :
              fs[call.path].entries[n].data = pre.doc.entries[n].data
        /\ \A n \in DOMAIN pre.doc.entries :
              fs[call.path].entries[n].method = pre.doc.entries[n].method

\* C10 amended: the new archive holds exactly the files of the original
\* (folder entries are dropped), every file other than the two XML parts
\* has its content, and every entry is deflated whatever it was before.
C10_RepackPreservesFiles ==
    Returned =>
        /\ fs[call.path].kind = "zip"
        /\ FileNames(fs[call.path]) = FileNames(pre.doc)
        /\ DirNames(fs[call.path]) = {}
        /\ \A n \in FileNames(pre.doc) \ XmlParts :
              fs[call.path].entries[n].data = pre.doc.entries[n].data
        /\ \A n \in FileNames(pre.doc) :
              fs[call.path].entries[n].method = "deflated"

\* a package with a stored image was patched and committed
C10_Witness ==
    /\ Returned
    /\ ~EmptyMap
    /\ \E n \in FileNames(pre.doc) \ XmlParts : pre.doc.entries[n].method = "stored"
    /\ fs[call.path].entries[ImagePart].data = pre.doc.entries[ImagePart].data
    /\ fs[call.path].entries[DocumentPart] # pre.doc.entries[DocumentPart]

----------------------------------------------------------------------------
(* The usage table of the variable store, written by the insert commands  *)
(* of the menu-bar and tray applications and by Scan Document and Update  *)
(* Document of the main window.  The values these commands push into the  *)
(* open document are not part of this state.                              *)

Guid1 == "guid-1"
Guid2 == "guid-2"
Guids == {Guid1, Guid2}

\* SELECT id FROM documents WHERE guid = ?
DocumentRows(documents, guid) == {d \in documents : d.guid = guid}

\* register_document: the id of the row of guid, inserted when missing
RegisteredId(documents, seq, guid) ==
    IF DocumentRows(documents, guid) # {}
    THEN (CHOOSE d \in DocumentRows(documents, guid) : TRUE).id
    ELSE seq.documents + 1

RegisteredRows(documents, seq, guid) ==
    IF DocumentRows(documents, guid) # {}
    THEN documents
    ELSE documents \cup {[id |-> seq.documents + 1, guid |-> guid]}

RegisteredSeq(documents, seq, guid) ==
    IF DocumentRows(documents, guid) # {}
    THEN seq
    ELSE [seq EXCEPT !.documents = @ + 1]

\* get_variable_by_name: the rows with that name (at most one)
VariableByName(variables, name) == {v \in variables : v.name = name}

\* record_usage: INSERT ... ON CONFLICT(variable_id, document_id) DO UPDATE
RecordUsage(usage, variable_id, document_id, with_unit) ==
    {u \in usage : ~(u.variable_id = variable_id /\ u.document_id = document_id)}
        \cup {[variable_id |-> variable_id, document_id |-> document_id,
               with_unit |-> with_unit]}

\* clear_usage_for_document
ClearUsageForDocument(usage, document_id) ==
    {u \in usage : u.document_id # document_id}

\* get_usage_with_unit: the flags of the joined rows (none: the call returns None)
UsageFlags(variables, documents, usage, name, guid) ==
    {u.with_unit : u \in {r \in usage :
        /\ \E v \in variables : v.id = r.variable_id /\ v.name = name
        /\ \E d \in documents : d.id = r.document_id /\ d.guid = guid}}

\* bool(get_usage_with_unit(...)) with None taken as False
GetUsageWithUnit(variables, documents, usage, name, guid) ==
    TRUE \in UsageFlags(variables, documents, usage, name, guid)

\* record_usage for every name of a list, each with the flag flagOf gives it
RECURSIVE RecordAll(_, _, _, _, _)
RecordAll(usage, variables, names, document_id, flagOf) ==
    IF names = {}
    THEN usage
    ELSE LET name == CHOOSE n \in names : TRUE
             rows == VariableByName(variables, name)
             next == IF rows = {}
                     THEN usage
                     ELSE RecordUsage(usage, (CHOOSE v \in rows : TRUE).id,
                                      document_id, flagOf[name])
         IN  RecordAll(next, variables, names \ {name}, document_id, flagOf)

FieldNames == {NameA, NameB, NameC}

InitUsage ==
    /\ db_variables = {[id |-> 1, name |-> NameA], [id |-> 2, name |-> NameB]}
    /\ db_documents = {}
    /\ db_usage = {}
    /\ db_seq = [variables |-> 2, documents |-> 0]
    /\ word_fields \in [Guids -> SUBSET {NameC}]
    /\ recorded = {}
    /\ PatchIdle
    /\ OthersIdle
    /\ DocxIdle

\* the usages of guid that a scan of its fields still finds
StillFound(guid) ==
    {r \in recorded : r.guid # guid \/ r.name \in word_fields[guid]}

\* insert_variable (menubar_app.py, tray_app_windows.py), a field or plain text
InsertVariable ==
    \E v \in db_variables, guid \in Guids, as_field \in BOOLEAN, with_unit \in BOOLEAN :
        IF as_field
        THEN /\ word_fields' = [word_fields EXCEPT ![guid] = @ \cup {v.name}]
             /\ db_documents' = RegisteredRows(db_documents, db_seq, guid)
             /\ db_seq' = RegisteredSeq(db_documents, db_seq, guid)
             /\ db_usage' = RecordUsage(db_usage, v.id,
                                RegisteredId(db_documents, db_seq, guid), with_unit)
             /\ recorded' = IF with_unit
                            THEN recorded \cup {[name |-> v.name, guid |-> guid]}
                            ELSE recorded \ {[name |-> v.name, guid |-> guid]}
             /\ UNCHANGED db_variables
             /\ UNCHANGED <<pvars, dvars, xvars>>
        ELSE /\ UNCHANGED uvars
             /\ UNCHANGED <<pvars, dvars, xvars>>

\* the user deletes a field in Word
RemoveField ==
    \E guid \in Guids, name \in FieldNames :
        /\ name \in word_fields[guid]
        /\ word_fields' = [word_fields EXCEPT ![guid] = @ \ {name}]
        /\ UNCHANGED <<db_variables, db_documents, db_usage, db_seq, recorded>>
        /\ UNCHANGED <<pvars, dvars, xvars>>

\* _scan_document (app.py 2045-2064)
ScanDocument ==
    \E guid \in Guids :
        LET doc_id == RegisteredId(db_documents, db_seq, guid)
        IN  /\ db_documents' = RegisteredRows(db_documents, db_seq, guid)
            /\ db_seq' = RegisteredSeq(db_documents, db_seq, guid)
            /\ db_usage' = RecordAll(ClearUsageForDocument(db_usage, doc_id),
                                     db_variables, word_fields[guid], doc_id,
                                     [n \in FieldNames |-> FALSE])
            /\ recorded' = StillFound(guid)
            /\ UNCHANGED <<db_variables, word_fields>>
            /\ UNCHANGED <<pvars, dvars, xvars>>

\* _update_document (app.py 2094-2122): the usage records it rewrites
UpdateDocumentUsage ==
    \E guid \in Guids :
        LET doc_id == RegisteredId(db_documents, db_seq, guid)
            documents == RegisteredRows(db_documents, db_seq, guid)
        IN  /\ db_documents' = documents
            /\ db_seq' = RegisteredSeq(db_documents, db_seq, guid)
            /\ db_usage' = RecordAll(db_usage, db_variables, word_fields[guid], doc_id,
                               [n \in FieldNames |->
                                   GetUsageWithUnit(db_variables, documents, db_usage, n, guid)])
            /\ recorded' = StillFound(guid)
            /\ UNCHANGED <<db_variables, word_fields>>
            /\ UNCHANGED <<pvars, dvars, xvars>>

NextUsage == InsertVariable \/ RemoveField \/ ScanDocument \/ UpdateDocumentUsage

SpecUsage == InitUsage /\ [][NextUsage]_vars

\* C5: a usage recorded with unit keeps its flag through every Scan
\* Document and Update Document of its document that still finds the
\* variable: get_usage_with_unit returns true for it.
C5_WithUnitPreserved ==
    \A r \in recorded :
        GetUsageWithUnit(db_variables, db_documents, db_usage, r.name, r.guid)

----------------------------------------------------------------------------
(* Reconciliation: Update Document (_update_document) on the open         *)
(* document and Update All (_update_all_files) on the tracked .docx       *)
(* files.                                                                 *)

Guid3 == "guid-3"
Docs == {1, 2, 3}
DocGuid(d) == IF d = 1 THEN Guid1 ELSE IF d = 2 THEN Guid2 ELSE Guid3

NameZ == <<"Z">>
NoUnit == <<>>

\* rows of the variables table, with value and unit
VariableRow(id, name, value, unit) ==
    [id |-> id, name |-> name, value |-> value, unit |-> unit]

StoreVariables ==
    { VariableRow(1, NameA, <<"1">>, <<"m">>),
      VariableRow(2, NameB, <<"2">>, NoUnit),
      VariableRow(3, NameC, <<"9">>, <<"k">>) }

\* ORDER BY name
NameOrder == <<NameA, NameB, NameC, NameZ>>

\* get_all_variables: the rows ordered by name
RECURSIVE RowsInOrder(_, _)
RowsInOrder(variables, names) ==
    IF names = <<>>
    THEN <<>>
    ELSE LET rows == VariableByName(variables, Head(names))
         IN  (IF rows = {} THEN <<>> ELSE <<CHOOSE v \in rows : TRUE>>)
                 \o RowsInOrder(variables, Tail(names))

GetAllVariables(variables) == RowsInOrder(variables, NameOrder)

\* the docVar elements of the settings part of a tracked file
DocDefs ==
    { << DocVar(NameA, <<"1">>), DocVar(NameB, <<"0">>) >>,
      << DocVar(NameA, <<"1", " ", "m">>), DocVar(NameZ, <<"0">>) >>,
      << DocVar(NameB, <<"2">>) >>,
      << DocVar(NameZ, <<"0">>), DocVar(NameB, <<"0">>), DocVar(NameA, <<>>) >> }

\* no file at docx_path + '.bak'
NoBackup == <<>>

\* a tracked file: whether it can be read, its docVar elements, and the
\* docVar elements of the .bak beside it
DocFile(status, defs) == [status |-> status, defs |-> defs, bak |-> NoBackup]

\* update_docx_variables with backup=True: shutil.copy2(docx_path, backup_path)
BackedUp(file) == [file EXCEPT !.bak = <<file.defs>>]

\* the usage rows of variable A: none, without unit or with unit per document
UsageOfA(choice) ==
    {[variable_id |-> 1, document_id |-> d, with_unit |-> choice[d] = "yes"] :
        d \in {e \in Docs : choice[e] # "none"}}

\* variable B, which has no unit, is recorded with unit in every document
UsageOfB == {[variable_id |-> 2, document_id |-> d, with_unit |-> TRUE] : d \in Docs}

\* get_docx_variables: name -> val of every docVar, the last one of a name wins
RECURSIVE GetDocxVariables(_)
GetDocxVariables(defs) ==
    IF defs = <<>>
    THEN <<>>
    ELSE LET last == defs[Len(defs)]
         IN  (last.name :> last.val) @@ GetDocxVariables(SubSeq(defs, 1, Len(defs) - 1))

\* a wrong rule: the unit is appended whatever the flag
DesiredValueAlways(v, with_unit) ==
    IF v.unit # NoUnit THEN v.value \o <<" ">> \o v.unit ELSE v.value

\* app.py 2110-2113 and 2198-2201: f"{v['value']} {v['unit']}" or v['value']
DesiredValue(v, with_unit) ==
    IF with_unit /\ v.unit # NoUnit THEN v.value \o <<" ">> \o v.unit ELSE v.value

\* _update_document, lines 2103-2113: db_values
RECURSIVE BuildDbValues(_, _)
BuildDbValues(all_vars, guid) ==
    IF all_vars = <<>>
    THEN <<>>
    ELSE LET v == all_vars[Len(all_vars)]
             with_unit == GetUsageWithUnit(db_variables, db_documents, db_usage, v.name, guid)
         IN  (v.name :> DesiredValue(v, with_unit))
                 @@ BuildDbValues(SubSeq(all_vars, 1, Len(all_vars) - 1), guid)

\* a wrong test: every document variable the store knows is stale
IsStaleKnown(var, values) == var.name \in DOMAIN values

\* the two tests of the loop of get_stale_variables
IsStale(var, values) == var.name \in DOMAIN values /\ var.val # values[var.name]

\* get_stale_variables: the loop over doc.Variables
RECURSIVE GetStaleVariables(_, _)
GetStaleVariables(doc_variables, values) ==
    IF doc_variables = <<>>
    THEN <<>>
    ELSE LET var == doc_variables[Len(doc_variables)]
             stale == GetStaleVariables(SubSeq(doc_variables, 1, Len(doc_variables) - 1), values)
         IN  IF IsStale(var, values)
             THEN (var.name :> <<var.val, values[var.name]>>) @@ stale
             ELSE stale

\* _update_all_files, lines 2190-2212: new_values and changes of one file
RECURSIVE CheckVariables(_, _, _)
CheckVariables(all_vars, current_vars, guid) ==
    IF all_vars = <<>>
    THEN [values |-> <<>>, changes |-> <<>>]
    ELSE LET v == all_vars[Len(all_vars)]
             before == CheckVariables(SubSeq(all_vars, 1, Len(all_vars) - 1), current_vars, guid)
             with_unit == GetUsageWithUnit(db_variables, db_documents, db_usage, v.name, guid)
             new_value == DesiredValue(v, with_unit)
         IN  IF v.name \notin DOMAIN current_vars
             THEN before
             ELSE [values |-> (v.name :> new_value) @@ before.values,
                   changes |-> IF current_vars[v.name] # new_value
                               THEN Append(before.changes,
                                        <<v.name, current_vars[v.name], new_value>>)
                               ELSE before.changes]

InitUpdate ==
    /\ db_variables = StoreVariables
    /\ db_documents = {[id |-> d, guid |-> DocGuid(d)] : d \in Docs}
    /\ \E choice \in [Docs -> {"none", "no", "yes"}] :
          db_usage = UsageOfA(choice) \cup UsageOfB
    /\ db_seq = [variables |-> 3, documents |-> 3]
    /\ word_fields = <<>>
    /\ recorded = {}
    /\ u_docs \in [Docs -> {DocFile("ok", defs) : defs \in DocDefs}]
    /\ u_pc = "start"
    /\ u_live = <<>>
    /\ u_files = <<>>
    /\ u_i = 0
    /\ u_checked = <<>>
    /\ u_todo = <<>>
    /\ u_count = 0
    /\ u_errors = <<>>
    /\ u_attempted = <<>>
    /\ CellIdle
    /\ RaceIdle
    /\ PatchIdle
    /\ DocxIdle
    /\ ScannerIdle
    /\ RangeIdle
    /\ GuidIdle
    /\ SyncIdle

\* the names of a sequence of rows that no docVar of defs has
RECURSIVE MissingFrom(_, _)
MissingFrom(all_vars, defs) ==
    IF all_vars = <<>>
    THEN <<>>
    ELSE (IF \E i \in 1..Len(defs) : defs[i].name = Head(all_vars).name
          THEN <<>> ELSE <<Head(all_vars).name>>) \o MissingFrom(Tail(all_vars), defs)

\* update_variables and _set_doc_variable: every name of the desired values is
\* set in the document, and added to it when the document does not have it
UpdateVariables(defs, all_vars, values) ==
    LET missing == MissingFrom(all_vars, defs)
    IN  UpdateSettings(defs, values)
            \o [i \in 1..Len(missing) |-> DocVar(missing[i], values[missing[i]])]

\* word_windows.py update_variables: the names it returns, those the document
\* has with another value
RECURSIVE UpdatedNames(_, _, _)
UpdatedNames(defs, all_vars, values) ==
    IF all_vars = <<>>
    THEN <<>>
    ELSE LET name == Head(all_vars).name
         IN  (IF \E i \in 1..Len(defs) : defs[i].name = name /\ defs[i].val # values[name]
              THEN <<name>> ELSE <<>>) \o UpdatedNames(defs, Tail(all_vars), values)

\* Optional[str]
NoValue == [found |-> FALSE, value |-> <<>>]
SomeValue(chars) == [found |-> TRUE, value |-> chars]

\* word_mac.py get_doc_variable_value: the output of the script, stripped by
\* run_applescript; the script returns "" for a variable that does not exist,
\* and an empty result is returned as None
GetDocVariableValueMac(defs, name) ==
    LET hits == {i \in 1..Len(defs) : defs[i].name = name}
        output == IF hits = {}
                  THEN <<>>
                  ELSE Strip(defs[CHOOSE i \in hits : \A j \in hits : i <= j].val)
    IN  IF output # <<>> THEN SomeValue(output) ELSE NoValue

\* word_mac.py get_stale_variables: the loop over db_variables.items()
RECURSIVE GetStaleVariablesMac(_, _, _)
GetStaleVariablesMac(defs, all_vars, values) ==
    IF all_vars = <<>>
    THEN <<>>
    ELSE LET name == all_vars[Len(all_vars)].name
             doc_value == GetDocVariableValueMac(defs, name)
             stale == GetStaleVariablesMac(defs, SubSeq(all_vars, 1, Len(all_vars) - 1), values)
         IN  IF doc_value.found /\ doc_value.value # values[name]
             THEN (name :> <<doc_value.value, values[name]>>) @@ stale
             ELSE stale

\* word_mac.py _set_doc_variable: delete variable, make new variable, set its value
SetDocVariableMac(defs, name, value) ==
    SelectSeq(defs, LAMBDA dv : dv.name # name) \o <<DocVar(name, value)>>

\* word_mac.py update_variables: the document after the loop and the names
\* it returns
RECURSIVE UpdateVariablesMac(_, _, _)
UpdateVariablesMac(defs, all_vars, values) ==
    IF all_vars = <<>>
    THEN [defs |-> defs, updated |-> <<>>]
    ELSE LET name == Head(all_vars).name
             current == GetDocVariableValueMac(defs, name)
             set == ~current.found \/ current.value # values[name]
             rest == UpdateVariablesMac(
                         IF set THEN SetDocVariableMac(defs, name, values[name]) ELSE defs,
                         Tail(all_vars), values)
         IN  [defs |-> rest.defs,
              updated |-> (IF current.found /\ current.value # values[name]
                           THEN <<name>> ELSE <<>>) \o rest.updated]

Platforms == {"Windows", "Darwin"}

\* _update_document on the open document d, of which the scan found the
\* DOCVARIABLE fields named by fields: the document is registered, db_values
\* are built, the usage of the fields is recorded again with the flag it has,
\* the stale variables are shown and, when the user agrees, the values are set
UpdateDocumentLive ==
    \E d \in Docs \cap DOMAIN u_docs, yes \in BOOLEAN, platform \in Platforms :
      \E fields \in SUBSET {u_docs[d].defs[i].name : i \in 1..Len(u_docs[d].defs)} :
        LET guid == DocGuid(d)
            doc_id == RegisteredId(db_documents, db_seq, guid)
            documents == RegisteredRows(db_documents, db_seq, guid)
            all_vars == GetAllVariables(db_variables)
            db_values == BuildDbValues(all_vars, guid)
            stale == IF platform = "Windows"
                     THEN GetStaleVariables(u_docs[d].defs, db_values)
                     ELSE GetStaleVariablesMac(u_docs[d].defs, all_vars, db_values)
            asked == stale # <<>> /\ yes
            defs == IF ~asked THEN u_docs[d].defs
                    ELSE IF platform = "Windows"
                    THEN UpdateVariables(u_docs[d].defs, all_vars, db_values)
                    ELSE UpdateVariablesMac(u_docs[d].defs, all_vars, db_values).defs
            updated == IF platform = "Windows"
                       THEN UpdatedNames(u_docs[d].defs, all_vars, db_values)
                       ELSE UpdateVariablesMac(u_docs[d].defs, all_vars, db_values).updated
        IN  /\ u_pc = "start"
            /\ u_docs[d].status = "ok"
            /\ db_documents' = documents
            /\ db_seq' = RegisteredSeq(db_documents, db_seq, guid)
            /\ db_usage' = RecordAll(db_usage, db_variables, fields, doc_id,
                               [n \in fields |->
                                   GetUsageWithUnit(db_variables, documents, db_usage, n, guid)])
            /\ u_live' = [doc |-> d, platform |-> platform,
                          current |-> GetDocxVariables(u_docs[d].defs),
                          db_values |-> db_values, stale |-> stale,
                          called |-> asked,
                          updated |-> IF asked THEN updated ELSE <<>>]
            /\ u_docs' = [u_docs EXCEPT ![d].defs = defs]
            /\ u_pc' = "done"
            /\ UNCHANGED <<db_variables, word_fields, recorded>>
            /\ UNCHANGED <<u_files, u_i, u_checked, u_todo, u_count, u_errors, u_attempted>>
            /\ UNCHANGED <<cvars, kvars, pvars, dvars, svars, rvars, gvars, yvars>>

\* the tracked files in the order of get_all_documents that exist on disk
RECURSIVE ExistingFiles(_, _)
ExistingFiles(docs, d) ==
    IF d \notin DOMAIN docs
    THEN <<>>
    ELSE (IF docs[d].status # "missing" THEN <<d>> ELSE <<>>) \o ExistingFiles(docs, d + 1)

\* _update_all_files, lines 2147-2176: docx_files
BeginUpdateAll ==
    /\ u_pc = "start"
    /\ u_files' = ExistingFiles(u_docs, 1)
    /\ u_i' = 1
    /\ u_pc' = IF ExistingFiles(u_docs, 1) = <<>> THEN "done" ELSE "check"
    /\ UNCHANGED <<u_docs, u_live, u_checked, u_todo, u_count, u_errors, u_attempted>>
    /\ UNCHANGED <<cvars, kvars, pvars, dvars, uvars, svars, rvars, gvars, yvars>>

\* after the last file of the loop that just advanced to index i
AfterCheck(i, todo) ==
    IF i <= Len(u_files) THEN "check" ELSE IF todo = <<>> THEN "done" ELSE "confirm"

\* a wrong test: every file that was read is to be written
HasChangesAlways(found) == TRUE

\* line 2214: if changes
HasChanges(found) == found.changes # <<>>

\* lines 2180-2221: one file of docx_files is read and compared
CheckFile ==
    /\ u_pc = "check"
    /\ u_docs[u_files[u_i]].status = "ok"
    /\ LET d == u_files[u_i]
           current_vars == GetDocxVariables(u_docs[d].defs)
           found == CheckVariables(GetAllVariables(db_variables), current_vars, DocGuid(d))
           todo == IF HasChanges(found)
                   THEN Append(u_todo, [doc |-> d, values |-> found.values,
                                        changes |-> found.changes])
                   ELSE u_todo
       IN  /\ u_checked' = Append(u_checked,
                  [doc |-> d, current |-> current_vars, values |-> found.values,
                   changes |-> found.changes])
           /\ u_todo' = todo
           /\ u_pc' = AfterCheck(u_i + 1, todo)
    /\ u_i' = u_i + 1
    /\ UNCHANGED <<u_docs, u_live, u_files, u_count, u_errors, u_attempted>>
    /\ UNCHANGED <<cvars, kvars, pvars, dvars, uvars, svars, rvars, gvars, yvars>>

\* lines 2223-2224: get_docx_variables raises, the file is left out
CheckFileRaises ==
    /\ u_pc = "check"
    /\ u_docs[u_files[u_i]].status # "ok"
    /\ u_pc' = AfterCheck(u_i + 1, u_todo)
    /\ u_i' = u_i + 1
    /\ UNCHANGED <<u_docs, u_live, u_files, u_checked, u_todo, u_count, u_errors, u_attempted>>
    /\ UNCHANGED <<cvars, kvars, pvars, dvars, uvars, svars, rvars, gvars, yvars>>

\* lines 2232-2240: the user confirms or declines
Confirm ==
    /\ u_pc = "confirm"
    /\ \E yes \in BOOLEAN : u_pc' = IF yes THEN "write" ELSE "done"
    /\ u_i' = 1
    /\ UNCHANGED <<u_docs, u_live, u_files, u_checked, u_todo, u_count, u_errors, u_attempted>>
    /\ UNCHANGED <<cvars, kvars, pvars, dvars, uvars, svars, rvars, gvars, yvars>>

\* the write loop after its iteration number i
AfterWrite(i) == IF i < Len(u_todo) THEN "write" ELSE "reported"

\* a wrong loop: the first error ends the batch
AfterErrorStop(i) == "reported"

\* lines 2248-2249: the exception is recorded and the loop goes on
AfterError(i) == AfterWrite(i)

\* lines 2245-2247: update_docx_variables returns for the file
WriteFileOk ==
    /\ u_pc = "write"
    /\ u_docs[u_todo[u_i].doc].status = "ok"
    /\ u_docs' = [u_docs EXCEPT ![u_todo[u_i].doc] =
                     [BackedUp(@) EXCEPT !.defs = UpdateSettings(@, u_todo[u_i].values)]]
    /\ u_count' = u_count + 1
    /\ u_attempted' = Append(u_attempted, u_todo[u_i].doc)
    /\ u_pc' = AfterWrite(u_i)
    /\ u_i' = u_i + 1
    /\ UNCHANGED <<u_live, u_files, u_checked, u_todo, u_errors>>
    /\ UNCHANGED <<cvars, kvars, pvars, dvars, uvars, svars, rvars, gvars, yvars>>

\* lines 2245-2249: the file is gone, update_docx_variables raises
\* FileNotFoundError
WriteFileMissing ==
    /\ u_pc = "write"
    /\ u_docs[u_todo[u_i].doc].status = "missing"
    /\ u_errors' = Append(u_errors, [doc |-> u_todo[u_i].doc, error |-> "FileNotFoundError"])
    /\ u_attempted' = Append(u_attempted, u_todo[u_i].doc)
    /\ u_pc' = AfterError(u_i)
    /\ u_i' = u_i + 1
    /\ UNCHANGED <<u_docs, u_live, u_files, u_checked, u_todo, u_count>>
    /\ UNCHANGED <<cvars, kvars, pvars, dvars, uvars, svars, rvars, gvars, yvars>>

\* lines 2245-2249: update_docx_variables raises on a file that is there,
\* while it makes the backup or after it; the file is left as it was or, when
\* the archive was being written, damaged
WriteFileRaises ==
    /\ u_pc = "write"
    /\ u_docs[u_todo[u_i].doc].status # "missing"
    /\ \E left \in {u_docs[u_todo[u_i].doc].status, "damaged"}, copied \in BOOLEAN :
          /\ left = "damaged" => copied
          /\ u_docs' = [u_docs EXCEPT ![u_todo[u_i].doc] =
                           [(IF copied THEN BackedUp(@) ELSE @) EXCEPT !.status = left]]
    /\ u_errors' = Append(u_errors, [doc |-> u_todo[u_i].doc, error |-> "raised"])
    /\ u_attempted' = Append(u_attempted, u_todo[u_i].doc)
    /\ u_pc' = AfterError(u_i)
    /\ u_i' = u_i + 1
    /\ UNCHANGED <<u_live, u_files, u_checked, u_todo, u_count>>
    /\ UNCHANGED <<cvars, kvars, pvars, dvars, uvars, svars, rvars, gvars, yvars>>

\* a tracked file is deleted from disk while Update All runs
DeleteFile ==
    \E d \in Docs :
        /\ u_pc \in {"check", "confirm", "write"}
        /\ u_docs[d].status = "ok"
        /\ u_docs' = [u_docs EXCEPT ![d].status = "missing"]
        /\ UNCHANGED <<u_pc, u_live, u_files, u_i, u_checked, u_todo, u_count, u_errors,
                       u_attempted>>
        /\ UNCHANGED <<cvars, kvars, pvars, dvars, uvars, svars, rvars, gvars, yvars>>

\* the files a run of Update All that starts now would find with changes:
\* lines 2155-2171 (the file exists) and 2180-2221 (it is read and compared)
NextRunTodo ==
    {d \in DOMAIN u_docs :
        /\ \E k \in 1..Len(ExistingFiles(u_docs, 1)) : ExistingFiles(u_docs, 1)[k] = d
        /\ u_docs[d].status = "ok"
        /\ HasChanges(CheckVariables(GetAllVariables(db_variables),
                                     GetDocxVariables(u_docs[d].defs), DocGuid(d)))}

\* Update All is run again right after a run that wrote every file it had
\* selected: lines 2225-2228 return when no file has changes, otherwise the
\* command asks again (line 2238)
UpdateAllAgain ==
    /\ u_pc = "reported"
    /\ u_errors = <<>>
    /\ u_pc' = IF NextRunTodo = {} THEN "up to date" ELSE "confirm again"
    /\ UNCHANGED <<u_docs, u_live, u_files, u_i, u_checked, u_todo, u_count, u_errors,
                   u_attempted>>
    /\ UNCHANGED <<cvars, kvars, pvars, dvars, uvars, svars, rvars, gvars, yvars>>

\* Excel link sync: sync_variables_from_excel over the linked variables

MaxLinks == 3

NoLink == "none"
Book == "book.xlsx"
GoneBook == "gone.xlsx"
Sheet1 == "Sheet1"
LostSheet == "Lost"
CellB2 == "B2"

\* a variable row as get_variables_with_excel_links returns it, and what the
\* linked cell holds
LinkedVariable(value, excel_file, excel_sheet, excel_cell, cell) ==
    [value |-> value, excel_file |-> excel_file, excel_sheet |-> excel_sheet,
     excel_cell |-> excel_cell, cell |-> cell]

LinkedVariables ==
    { LinkedVariable(<<"1">>, NoLink, NoLink, NoLink, NoneCell),
      LinkedVariable(<<"1">>, Book, Sheet1, NoLink, NoneCell),
      LinkedVariable(<<"1">>, Book, Sheet1, CellB2, StrCell(<<"1">>)),
      LinkedVariable(<<"1">>, Book, Sheet1, CellB2, IntCell(2)),
      LinkedVariable(<<"2">>, Book, Sheet1, CellB2, FloatCell(20)),
      LinkedVariable(<<"2">>, Book, Sheet1, CellB2, FloatCell(25)),
      LinkedVariable(<<"1">>, Book, Sheet1, CellB2, NoneCell),
      LinkedVariable(<<"1">>, GoneBook, Sheet1, CellB2, IntCell(2)),
      LinkedVariable(<<"1">>, Book, LostSheet, CellB2, IntCell(2)) }

\* line 225: all([file_path, sheet_name, cell_ref])
LinkComplete(var) ==
    var.excel_file # NoLink /\ var.excel_sheet # NoLink /\ var.excel_cell # NoLink

\* read_cell_value, lines 117-124: FileNotFoundError or ValueError
ReadRaises(var) == var.excel_file = GoneBook \/ var.excel_sheet = LostSheet

InitSync ==
    /\ db_variables = StoreVariables
    /\ db_documents = {[id |-> d, guid |-> DocGuid(d)] : d \in Docs}
    /\ db_usage = UsageOfB
    /\ db_seq = [variables |-> 3, documents |-> 3]
    /\ word_fields = <<>>
    /\ recorded = {}
    /\ y_links \in [1..MaxLinks -> LinkedVariables]
    /\ y_i = 1
    /\ y_changes = <<>>
    /\ y_attempted = <<>>
    /\ ReconcileIdle
    /\ CellIdle
    /\ RaceIdle
    /\ PatchIdle
    /\ DocxIdle
    /\ ScannerIdle
    /\ RangeIdle
    /\ GuidIdle

\* lines 225-226: a variable without a complete link is passed over
SyncSkip ==
    /\ y_i \in 1..Len(y_links)
    /\ ~LinkComplete(y_links[y_i])
    /\ y_i' = y_i + 1
    /\ UNCHANGED <<y_links, y_changes, y_attempted>>
    /\ UNCHANGED <<cvars, kvars, pvars, dvars, uvars, svars, rvars, gvars, bvars>>

\* lines 228-233: the cell is read and compared with the stored value
SyncRead ==
    /\ y_i \in 1..Len(y_links)
    /\ LinkComplete(y_links[y_i])
    /\ ~ReadRaises(y_links[y_i])
    /\ LET new_value == ReadCellValue(y_links[y_i].cell)
           old_value == y_links[y_i].value
       IN  y_changes' = IF new_value # old_value
                        THEN (y_i :> <<old_value, new_value>>) @@ y_changes
                        ELSE y_changes
    /\ y_attempted' = Append(y_attempted, y_i)
    /\ y_i' = y_i + 1
    /\ UNCHANGED y_links
    /\ UNCHANGED <<cvars, kvars, pvars, dvars, uvars, svars, rvars, gvars, bvars>>

\* lines 234-236: read_cell_value raises, the variable is skipped
SyncReadRaises ==
    /\ y_i \in 1..Len(y_links)
    /\ LinkComplete(y_links[y_i])
    /\ ReadRaises(y_links[y_i])
    /\ y_attempted' = Append(y_attempted, y_i)
    /\ y_i' = y_i + 1
    /\ UNCHANGED <<y_links, y_changes>>
    /\ UNCHANGED <<cvars, kvars, pvars, dvars, uvars, svars, rvars, gvars, bvars>>

InitReconcile == InitUpdate \/ InitSync

NextReconcile ==
    \/ SyncSkip
    \/ SyncRead
    \/ SyncReadRaises
    \/ UpdateDocumentLive
    \/ BeginUpdateAll
    \/ CheckFile
    \/ CheckFileRaises
    \/ Confirm
    \/ WriteFileOk
    \/ WriteFileMissing
    \/ WriteFileRaises
    \/ DeleteFile
    \/ UpdateAllAgain

SpecReconcile == InitReconcile /\ [][NextReconcile]_vars

----------------------------------------------------------------------------
(* Claims on reconciliation                                               *)

\* the keys of both maps on which the two maps differ
DifferingKeys(current, desired) ==
    {k \in DOMAIN current \cap DOMAIN desired : current[k] # desired[k]}

\* the desired values of every variable of the store for the document d
DesiredFor(d) == BuildDbValues(GetAllVariables(db_variables), DocGuid(d))

\* the changes list of a checked file, as a set
ChangesOf(checked) == {checked.changes[j] : j \in 1..Len(checked.changes)}

\* C16: the staleness map of Update Document on Windows has exactly the keys that are in
\* the document and in the desired values with different values, each mapped
\* to (document value, desired value); the changes of a file checked by
\* Update All are exactly those keys with the same pair, each listed once.
\* A key of one side only is never listed.
C16_Staleness ==
    /\ (u_live # <<>> /\ u_live.platform = "Windows") =>
          LET current == u_live.current
              desired == u_live.db_values
          IN  /\ DOMAIN u_live.stale = DifferingKeys(current, desired)
              /\ \A k \in DOMAIN u_live.stale :
                    u_live.stale[k] = <<current[k], desired[k]>>
    /\ \A c \in 1..Len(u_checked) :
          LET current == u_checked[c].current
              desired == DesiredFor(u_checked[c].doc)
          IN  /\ ChangesOf(u_checked[c]) =
                     {<<k, current[k], desired[k]>> : k \in DifferingKeys(current, desired)}
              /\ Len(u_checked[c].changes) = Cardinality(DifferingKeys(current, desired))

\* Update Document has compared a document that holds A unchanged, B changed
\* and no C, against desired values that hold C: only B is stale
C16_Witness ==
    /\ u_live # <<>>
    /\ u_live.platform = "Windows"
    /\ DOMAIN u_live.current = {NameA, NameB}
    /\ NameC \in DOMAIN u_live.db_values
    /\ u_live.stale = (NameB :> << <<"0">>, <<"2">> >>)

\* the usage record of the variable with this id in the document d says with unit
FlagSet(id, d) ==
    \E row \in db_usage : row.variable_id = id /\ row.document_id = d /\ row.with_unit

\* value, one space, unit when the flag of (variable, document) is set and the
\* unit is not empty, else the value
ExpectedString(v, d) ==
    IF FlagSet(v.id, d) /\ v.unit # <<>> THEN v.value \o <<" ">> \o v.unit ELSE v.value

\* C18: the desired string computed for a variable and a document is value,
\* space, unit exactly when the usage record of that variable in that document
\* has with_unit set and the unit is not empty, and the bare value otherwise,
\* also without a usage record; the records of other documents play no part.
C18_DesiredString ==
    /\ u_live # <<>> =>
          /\ DOMAIN u_live.db_values = {v.name : v \in db_variables}
          /\ \A v \in db_variables :
                u_live.db_values[v.name] = ExpectedString(v, u_live.doc)
    /\ \A c \in 1..Len(u_checked) :
          /\ DOMAIN u_checked[c].values =
                 {v.name : v \in db_variables} \cap DOMAIN u_checked[c].current
          /\ \A v \in db_variables :
                v.name \in DOMAIN u_checked[c].values =>
                    u_checked[c].values[v.name] = ExpectedString(v, u_checked[c].doc)

\* Update All has checked two files that both hold A: the first has A recorded
\* with unit and gets "1 m", the second has A recorded without unit and gets
\* "1"; B, recorded with unit but without a unit, gets the bare value
C18_Witness ==
    /\ Len(u_checked) >= 2
    /\ FlagSet(1, u_checked[1].doc)
    /\ ~FlagSet(1, u_checked[2].doc)
    /\ NameA \in DOMAIN u_checked[1].values
    /\ NameA \in DOMAIN u_checked[2].values
    /\ NameB \in DOMAIN u_checked[1].values
    /\ u_checked[1].values[NameA] = <<"1", " ", "m">>
    /\ u_checked[2].values[NameA] = <<"1">>
    /\ u_checked[1].values[NameB] = <<"2">>

\* the files of the write loop that were reported with an error
ErrorDocs == {u_errors[j].doc : j \in 1..Len(u_errors)}

\* the links among the first n that are complete
RECURSIVE CompleteLinks(_)
CompleteLinks(n) ==
    IF n = 0
    THEN <<>>
    ELSE CompleteLinks(n - 1) \o (IF LinkComplete(y_links[n]) THEN <<n>> ELSE <<>>)

\* C17: the write loop of Update All attempts the files with changes once each
\* and in order, whatever happened to the earlier ones, and when it reports it
\* has attempted them all; every attempted file is either reported with its
\* error (not found when it is gone from disk) or counted and holds its new
\* values.  The Excel link sync attempts every complete link once and in
\* order, and records the change of every readable link whose cell differs,
\* whatever links before it could not be read.
C17_CollectAndContinue ==
    /\ u_pc = "write" => Len(u_attempted) = u_i - 1
    /\ u_pc = "reported" => Len(u_attempted) = Len(u_todo)
    /\ Len(u_attempted) <= Len(u_todo)
    /\ \A k \in 1..Len(u_attempted) : u_attempted[k] = u_todo[k].doc
    /\ u_count + Len(u_errors) = Len(u_attempted)
    /\ Cardinality(ErrorDocs) = Len(u_errors)
    /\ \A j \in 1..Len(u_errors) :
          /\ \E k \in 1..Len(u_attempted) : u_attempted[k] = u_errors[j].doc
          /\ u_errors[j].error = "FileNotFoundError" => u_docs[u_errors[j].doc].status = "missing"
    /\ \A k \in 1..Len(u_attempted) :
          u_attempted[k] \notin ErrorDocs =>
              \A n \in DOMAIN u_todo[k].values :
                  GetDocxVariables(u_docs[u_attempted[k]].defs)[n] = u_todo[k].values[n]
    /\ y_links # <<>> =>
          /\ y_attempted = CompleteLinks(y_i - 1)
          /\ DOMAIN y_changes =
                 {n \in 1..(y_i - 1) :
                     /\ LinkComplete(y_links[n])
                     /\ ~ReadRaises(y_links[n])
                     /\ ReadCellValue(y_links[n].cell) # y_links[n].value}
          /\ \A n \in DOMAIN y_changes :
                y_changes[n] = <<y_links[n].value, ReadCellValue(y_links[n].cell)>>

\* three files had changes, the second was deleted before its write: the loop
\* reported one not-found error for it and updated the first and the third
C17_Witness ==
    /\ u_pc = "reported"
    /\ Len(u_todo) = 3
    /\ u_count = 2
    /\ Len(u_errors) = 1
    /\ u_errors[1] = [doc |-> u_todo[2].doc, error |-> "FileNotFoundError"]
    /\ \A k \in {1, 3} :
          /\ u_docs[u_todo[k].doc].status = "ok"
          /\ \A n \in DOMAIN u_todo[k].values :
                GetDocxVariables(u_docs[u_todo[k].doc].defs)[n] = u_todo[k].values[n]

\* the files the write loop was given
TodoDocs == {u_todo[k].doc : k \in 1..Len(u_todo)}

\* C23: Update All hands a file to update_docx_variables only when the check
\* found a definition that differs from its desired value.  A file that was
\* checked without a difference keeps its definitions and gets no .bak, no
\* file outside the write list gets a .bak, and every file the loop has
\* written has a .bak holding the definitions it had when it was checked.
C23_WritesOnlyChanged ==
    u_live = <<>> =>
        /\ \A c \in 1..Len(u_checked) :
              /\ u_checked[c].doc \in TodoDocs <=>
                     \E n \in DOMAIN u_checked[c].values :
                         u_checked[c].current[n] # u_checked[c].values[n]
              /\ u_checked[c].doc \notin TodoDocs =>
                     /\ GetDocxVariables(u_docs[u_checked[c].doc].defs) = u_checked[c].current
                     /\ u_docs[u_checked[c].doc].bak = NoBackup
        /\ \A d \in DOMAIN u_docs : u_docs[d].bak # NoBackup => d \in TodoDocs
        /\ \A k \in 1..Len(u_attempted) :
              u_attempted[k] \notin ErrorDocs =>
                  /\ u_docs[u_attempted[k]].bak # NoBackup
                  /\ \E c \in 1..Len(u_checked) :
                        /\ u_checked[c].doc = u_attempted[k]
                        /\ GetDocxVariables(u_docs[u_attempted[k]].bak[1]) = u_checked[c].current

\* Update All has finished a run over three files: one was up to date and is
\* as it was, without a .bak; two had changes and were written, each with a .bak
C23_Witness ==
    /\ u_pc = "reported"
    /\ Len(u_checked) = 3
    /\ Len(u_todo) = 2
    /\ u_count = 2
    /\ \E c \in 1..3 :
          /\ u_checked[c].doc \notin TodoDocs
          /\ u_docs[u_checked[c].doc].bak = NoBackup
          /\ u_docs[u_checked[c].doc].status = "ok"
    /\ \A d \in TodoDocs : u_docs[d].bak # NoBackup

\* the changes Update All lists for a file that holds current, as a map
OfflineStale(current, d) ==
    LET changes == CheckVariables(GetAllVariables(db_variables), current, DocGuid(d)).changes
    IN  [n \in {changes[j][1] : j \in 1..Len(changes)} |->
            LET j == CHOOSE k \in 1..Len(changes) : changes[k][1] = n
            IN  <<changes[j][2], changes[j][3]>>]

\* C24: the stale variables Update Document finds in the open document, on
\* Windows and on macOS, are the changes Update All lists for a file with the
\* same variables under the same desired values, also when a variable of the
\* document holds the empty string.
C24_PathIndependent ==
    u_live # <<>> => u_live.stale = OfflineStale(u_live.current, u_live.doc)

----------------------------------------------------------------------------
(* The start cell of read_range_as_variables: the reference is matched,   *)
(* split into column letters and row, and the value and unit columns are  *)
(* computed from the column letters.                                       *)

Alphabet == <<"A", "B", "C", "D", "E", "F", "G", "H", "I", "J", "K", "L", "M",
              "N", "O", "P", "Q", "R", "S", "T", "U", "V", "W", "X", "Y", "Z">>
LowerAlphabet == <<"a", "b", "c", "d", "e", "f", "g", "h", "i", "j", "k", "l", "m",
                   "n", "o", "p", "q", "r", "s", "t", "u", "v", "w", "x", "y", "z">>

\* str.upper()
UpperChar(ch) ==
    IF \E i \in 1..26 : LowerAlphabet[i] = ch
    THEN Alphabet[CHOOSE i \in 1..26 : LowerAlphabet[i] = ch]
    ELSE ch
Upper(chars) == [i \in 1..Len(chars) |-> UpperChar(chars[i])]

\* [A-Za-z] and \d
IsLetter(ch) == \E i \in 1..26 : Alphabet[i] = ch \/ LowerAlphabet[i] = ch
IsDigit(ch) == \E i \in 1..10 : Digits[i] = ch

RECURSIVE SkipLetters(_, _)
SkipLetters(chars, j) ==
    IF j <= Len(chars) /\ IsLetter(chars[j]) THEN SkipLetters(chars, j + 1) ELSE j

RECURSIVE SkipDigits(_, _)
SkipDigits(chars, j) ==
    IF j <= Len(chars) /\ IsDigit(chars[j]) THEN SkipDigits(chars, j + 1) ELSE j

\* re.match(r'([A-Za-z]+)(\d+)', start_cell.upper()): the match at the start
\* of the reference and its two groups
MatchStartCell(start_cell) ==
    LET chars == Upper(start_cell)
        j == SkipLetters(chars, 1)
        k == SkipDigits(chars, j)
    IN  IF j > 1 /\ k > j
        THEN [matched |-> TRUE, col |-> SubSeq(chars, 1, j - 1), row |-> SubSeq(chars, j, k - 1)]
        ELSE [matched |-> FALSE, col |-> <<>>, row |-> <<>>]

\* int(match.group(2))
RECURSIVE IntOfDigits(_)
IntOfDigits(chars) ==
    IF chars = <<>>
    THEN 0
    ELSE 10 * IntOfDigits(SubSeq(chars, 1, Len(chars) - 1))
             + (CHOOSE i \in 1..10 : Digits[i] = chars[Len(chars)]) - 1

\* col_to_num
RECURSIVE ColToNum(_)
ColToNum(col_str) ==
    IF col_str = <<>>
    THEN 0
    ELSE ColToNum(SubSeq(col_str, 1, Len(col_str) - 1)) * 26
             + (CHOOSE i \in 1..26 : Alphabet[i] = col_str[Len(col_str)])

\* num_to_col
RECURSIVE NumToCol(_)
NumToCol(num) ==
    IF num > 0
    THEN NumToCol((num - 1) \div 26) \o <<Alphabet[((num - 1) % 26) + 1]>>
    ELSE <<>>

\* start cells: an optional $, column letters, row digits, trailing text
RefLeads == {<<>>, <<"$">>}
RefColumns == {<<>>, <<"A">>, <<"Y">>, <<"Z">>, <<"A", "A">>, <<"A", "Z">>, <<"a", "z">>,
               <<"Z", "Y">>, <<"Z", "Z">>}
RefRows == {<<>>, <<"0">>, <<"1">>, <<"1", "0">>, <<"0", "7">>}
RefTrails == {<<>>, <<"x">>, <<":", "B", "2">>, <<" ">>}
CellRefs ==
    {lead \o col \o row \o trail :
        lead \in RefLeads, col \in RefColumns, row \in RefRows, trail \in RefTrails}

InitCell ==
    /\ c_ref \in CellRefs
    /\ c_out = <<>>
    /\ PatchIdle
    /\ DocxIdle
    /\ UsageIdle
    /\ ScannerIdle
    /\ RangeIdle
    /\ GuidIdle
    /\ ReconcileIdle
    /\ SyncIdle
    /\ RaceIdle

\* read_range_as_variables, lines 265-301: the reference does not match and
\* ValueError is raised
RejectStartCell ==
    /\ c_out = <<>>
    /\ ~MatchStartCell(c_ref).matched
    /\ c_out' = [status |-> "ValueError", name_col |-> <<>>, value_col |-> <<>>,
                 unit_col |-> <<>>, start_row |-> 0]
    /\ UNCHANGED c_ref
    /\ UNCHANGED <<pvars, dvars, uvars, svars, rvars, gvars, bvars, yvars, kvars>>

\* read_range_as_variables, lines 265-301: the reference matches, the columns
\* are computed and the first name cell is asked for; what the worksheet does
\* when asked for row 0 is the library's choice, it raises or hands out a cell
AcceptStartCell ==
    /\ c_out = <<>>
    /\ MatchStartCell(c_ref).matched
    /\ LET m == MatchStartCell(c_ref)
           col_num == ColToNum(m.col)
       IN  \E status \in {"read", "raised"} :
              /\ status = "raised" => IntOfDigits(m.row) = 0
              /\ c_out' = [status |-> status, name_col |-> m.col,
                           value_col |-> NumToCol(col_num + 1),
                           unit_col |-> NumToCol(col_num + 2),
                           start_row |-> IntOfDigits(m.row)]
    /\ UNCHANGED c_ref
    /\ UNCHANGED <<pvars, dvars, uvars, svars, rvars, gvars, bvars, yvars, kvars>>

NextCell == RejectStartCell \/ AcceptStartCell

SpecCell == InitCell /\ [][NextCell]_vars

\* the reference is one or more letters followed by the digits of a row from 1 on
WellFormedRef(ref) ==
    \E j \in 2..Len(ref) :
        /\ \A i \in 1..(j - 1) : IsLetter(ref[i])
        /\ \A i \in j..Len(ref) : IsDigit(ref[i])
        /\ \E i \in j..Len(ref) : ref[i] # "0"

\* the column after col in letter notation: the last letter moves on, and
\* after Z it becomes A with the letters before it moved on by one
RECURSIVE NextColumn(_)
NextColumn(col) ==
    IF col = <<>>
    THEN <<"A">>
    ELSE IF col[Len(col)] = "Z"
    THEN NextColumn(SubSeq(col, 1, Len(col) - 1)) \o <<"A">>
    ELSE SubSeq(col, 1, Len(col) - 1)
             \o <<Alphabet[(CHOOSE i \in 1..26 : Alphabet[i] = col[Len(col)]) + 1]>>

\* C25: a start cell that is not letters followed by the digits of a row from
\* 1 on is rejected and nothing is read from the sheet; for every other start
\* cell the value column is the column after the start column and the unit
\* column the one after that, and the start column comes back unchanged from
\* its number.
C25_CellReferences ==
    c_out # <<>> =>
        /\ c_out.status = "read" <=> WellFormedRef(c_ref)
        /\ c_out.status = "read" =>
              /\ c_out.value_col = NextColumn(c_out.name_col)
              /\ c_out.unit_col = NextColumn(NextColumn(c_out.name_col))
              /\ NumToCol(ColToNum(c_out.name_col)) = c_out.name_col

----------------------------------------------------------------------------
\* the separate marker of the complex field begun at g, or 0: the first one
\* after g with no other begin or end marker before it
FieldSeparate(b, g) ==
    LET s == FirstSeparate(b, g, Len(b) + 1)
    IN  IF s # 0 /\ \A k \in (g + 1)..(s - 1) :
                        ~IsMarker(b, k, "begin") /\ ~IsMarker(b, k, "end")
        THEN s ELSE 0

\* the display text runs of the complex field begun at g
RunsOf(b, g) ==
    {i \in 1..Len(b) : b[i].tag = "t" /\ ~b[i].inSimple /\ OpenBegin(b, i) = g
                       /\ FieldSeparate(b, g) # 0 /\ FieldSeparate(b, g) < i}

\* the displayed text of the field begun at g: its display runs from position
\* i on, concatenated in document order
RECURSIVE DisplayedText(_, _, _)
DisplayedText(b, g, i) ==
    IF i > Len(b)
    THEN <<>>
    ELSE (IF i \in RunsOf(b, g) THEN b[i].text ELSE <<>>) \o DisplayedText(b, g, i + 1)

\* the complex DOCVARIABLE fields of b: begin markers with one variable name
\* in the instruction part and at least one display run
ComplexFields(b) ==
    {g \in 1..Len(b) :
        /\ IsMarker(b, g, "begin")
        /\ RunsOf(b, g) # {}
        /\ Cardinality(InstrNames(b, g, FieldSeparate(b, g))) = 1}

FieldName(b, g) == CHOOSE n \in InstrNames(b, g, FieldSeparate(b, g)) : TRUE

\* C28: after a patch, every DOCVARIABLE field whose variable is a key of the
\* update map displays the map's value: a text run of a simple field has it,
\* and the display runs of a complex field, concatenated in document order,
\* give it, also when the field has more than one display run.
C28_DisplayedText ==
    Patched =>
        /\ \A i \in 1..Len(p_body) :
              (/\ p_body[i].tag = "t" /\ p_body[i].inSimple
               /\ DocVarMatch(p_body[i].instr).matched
               /\ DocVarMatch(p_body[i].instr).name \in KeysOfUpdate)
              => p_body[i].text = p_variables[DocVarMatch(p_body[i].instr).name]
        /\ \A g \in ComplexFields(p_body) :
              FieldName(p_body, g) \in KeysOfUpdate
              => DisplayedText(p_body, g, 1) = p_variables[FieldName(p_body, g)]

\* the same for the fields with one display run and no instruction text
\* after the separate marker
C28_SingleRun ==
    Patched =>
        \A g \in ComplexFields(p_body) :
            (/\ FieldName(p_body, g) \in KeysOfUpdate
             /\ Cardinality(RunsOf(p_body, g)) = 1
             /\ \A k \in 1..Len(p_body) :
                   (p_body[k].tag = "instrText" /\ OpenBegin(p_body, k) = g)
                   => k < FieldSeparate(p_body, g))
            => DisplayedText(p_body, g, 1) = p_variables[FieldName(p_body, g)]

\* a closed field with two display runs and nothing else in the body was
\* patched and displays something else than the value
C28_SplitField ==
    ~(/\ Patched
      /\ p_orig.body \in SplitBodies
      /\ Len(p_body) = 6
      /\ NameA \in KeysOfUpdate
      /\ DisplayedText(p_body, 1, 1) = p_variables[NameA] \o p_variables[NameA])

----------------------------------------------------------------------------
(* The variable store on its own: the calls of database.py that write the  *)
(* variables, documents and usage tables.  A connection is opened without  *)
(* PRAGMA foreign_keys (_get_connection, lines 37-40), so SQLite does not  *)
(* enforce the FOREIGN KEY clauses of the usage table and no delete        *)
(* cascades; UNIQUE(variable_id, document_id) is enforced.  AUTOINCREMENT  *)
(* never hands out an id twice.                                            *)

VariableIds == {1, 2}
DocumentIds == {1, 2}
StoreNames == {NameA, NameB}

InitStore ==
    /\ db_variables = {}
    /\ db_documents = {}
    /\ db_usage = {}
    /\ db_seq = [variables |-> 0, documents |-> 0]
    /\ word_fields = <<>>
    /\ recorded = {}
    /\ PatchIdle
    /\ OthersIdle
    /\ DocxIdle

\* add_variable: a row with the next id; a name that is taken raises
\* (name TEXT UNIQUE) and the store is as it was
AddVariable ==
    \E name \in StoreNames :
        /\ db_seq.variables + 1 \in VariableIds
        /\ IF VariableByName(db_variables, name) = {}
           THEN /\ db_variables' = db_variables
                        \cup {[id |-> db_seq.variables + 1, name |-> name]}
                /\ db_seq' = [db_seq EXCEPT !.variables = @ + 1]
           ELSE UNCHANGED <<db_variables, db_seq>>
        /\ UNCHANGED <<db_documents, db_usage, word_fields, recorded>>
        /\ UNCHANGED <<pvars, dvars, xvars>>

\* delete_variable: DELETE FROM variables WHERE id = ?
DeleteVariable ==
    \E var_id \in VariableIds :
        /\ db_variables' = {v \in db_variables : v.id # var_id}
        /\ UNCHANGED <<db_documents, db_usage, db_seq, word_fields, recorded>>
        /\ UNCHANGED <<pvars, dvars, xvars>>

\* register_document
RegisterDocument ==
    \E guid \in Guids :
        /\ RegisteredId(db_documents, db_seq, guid) \in DocumentIds
        /\ db_documents' = RegisteredRows(db_documents, db_seq, guid)
        /\ db_seq' = RegisteredSeq(db_documents, db_seq, guid)
        /\ UNCHANGED <<db_variables, db_usage, word_fields, recorded>>
        /\ UNCHANGED <<pvars, dvars, xvars>>

\* delete_document: the usage rows of the document, then its row
DeleteDocument ==
    \E doc_id \in DocumentIds :
        /\ db_usage' = ClearUsageForDocument(db_usage, doc_id)
        /\ db_documents' = {d \in db_documents : d.id # doc_id}
        /\ UNCHANGED <<db_variables, db_seq, word_fields, recorded>>
        /\ UNCHANGED <<pvars, dvars, xvars>>

\* record_usage, called with the ids of rows the caller has just read
RecordUsageCall ==
    \E v \in db_variables, d \in db_documents, with_unit \in BOOLEAN :
        /\ db_usage' = RecordUsage(db_usage, v.id, d.id, with_unit)
        /\ UNCHANGED <<db_variables, db_documents, db_seq, word_fields, recorded>>
        /\ UNCHANGED <<pvars, dvars, xvars>>

\* clear_usage_for_document
ClearUsageCall ==
    \E doc_id \in DocumentIds :
        /\ db_usage' = ClearUsageForDocument(db_usage, doc_id)
        /\ UNCHANGED <<db_variables, db_documents, db_seq, word_fields, recorded>>
        /\ UNCHANGED <<pvars, dvars, xvars>>

NextStore ==
    \/ AddVariable
    \/ DeleteVariable
    \/ RegisterDocument
    \/ DeleteDocument
    \/ RecordUsageCall
    \/ ClearUsageCall

SpecStore == InitStore /\ [][NextStore]_vars

\* C29: referential integrity of the usage table.  After any sequence of the
\* six calls every usage row refers to a variable row and a document row of
\* the store, and no two usage rows have the same variable and document.
C29_ReferentialIntegrity ==
    /\ \A u \in db_usage :
          /\ \E v \in db_variables : v.id = u.variable_id
          /\ \E d \in db_documents : d.id = u.document_id
    /\ \A u1 \in db_usage, u2 \in db_usage :
          (u1.variable_id = u2.variable_id /\ u1.document_id = u2.document_id)
          => u1 = u2

\* the parts of it the calls keep: one row per pair, and a document row for
\* every usage row
C29_PairsAndDocuments ==
    /\ \A u \in db_usage : \E d \in db_documents : d.id = u.document_id
    /\ \A u1 \in db_usage, u2 \in db_usage :
          (u1.variable_id = u2.variable_id /\ u1.document_id = u2.document_id)
          => u1 = u2

----------------------------------------------------------------------------
(* Update Document on its own, over stores whose values came from the      *)
(* dialogs (stripped, app.py line 109) or from an Excel link               *)
(* (read_cell_value returns str(value) as it is, excel_reader.py line 140, *)
(* so a text cell that begins with a blank gives a value that does).       *)

StoreFromCells ==
    { VariableRow(1, NameA, <<" ", "1">>, <<"m">>),
      VariableRow(2, NameB, <<"2">>, NoUnit),
      VariableRow(3, NameC, <<"9">>, <<"k">>) }

InitLive ==
    /\ db_variables \in {StoreVariables, StoreFromCells}
    /\ db_documents = {[id |-> d, guid |-> DocGuid(d)] : d \in Docs}
    /\ \E choice \in [Docs -> {"none", "no", "yes"}] :
          db_usage = UsageOfA(choice) \cup UsageOfB
    /\ db_seq = [variables |-> 3, documents |-> 3]
    /\ word_fields = <<>>
    /\ recorded = {}
    /\ u_docs \in [Docs -> {DocFile("ok", defs) : defs \in DocDefs}]
    /\ u_pc = "start"
    /\ u_live = <<>>
    /\ u_files = <<>>
    /\ u_i = 0
    /\ u_checked = <<>>
    /\ u_todo = <<>>
    /\ u_count = 0
    /\ u_errors = <<>>
    /\ u_attempted = <<>>
    /\ CellIdle
    /\ RaceIdle
    /\ PatchIdle
    /\ DocxIdle
    /\ ScannerIdle
    /\ RangeIdle
    /\ GuidIdle
    /\ SyncIdle

SpecLive == InitLive /\ [][UpdateDocumentLive]_vars

\* get_stale_variables of the open document as it is now, with the desired
\* map of the last Update Document
StaleNow ==
    IF u_live.platform = "Windows"
    THEN GetStaleVariables(u_docs[u_live.doc].defs, u_live.db_values)
    ELSE GetStaleVariablesMac(u_docs[u_live.doc].defs, GetAllVariables(db_variables),
                              u_live.db_values)

UpdatedSet == {u_live.updated[k] : k \in 1..Len(u_live.updated)}

\* C30: live update agrees with live staleness.  When Update Document has
\* called update_variables, the names it returned are the keys of the map
\* get_stale_variables gave just before, and get_stale_variables with the same
\* desired map on the document as it is after the call gives an empty map.
C30_LiveAgreement ==
    (u_live # <<>> /\ u_live.called) =>
        /\ UpdatedSet = DOMAIN u_live.stale
        /\ StaleNow = <<>>

\* the same on Windows
C30_Windows ==
    (u_live # <<>> /\ u_live.called /\ u_live.platform = "Windows") =>
        /\ UpdatedSet = DOMAIN u_live.stale
        /\ StaleNow = <<>>

\* the returned names are the stale keys on both platforms, and on macOS
\* nothing is stale after the call when no desired value begins or ends
\* with white space
C30_Stripped ==
    (u_live # <<>> /\ u_live.called) =>
        /\ UpdatedSet = DOMAIN u_live.stale
        /\ (\A n \in DOMAIN u_live.db_values :
                Strip(u_live.db_values[n]) = u_live.db_values[n])
           => StaleNow = <<>>

----------------------------------------------------------------------------
\* C27: convergence of Update All.  After a run that wrote every file it had
\* selected without an error, and with the variable store and the usage flags
\* as they were, no tracked file that exists has a definition that differs from
\* its desired value, so the run that follows finds nothing to write and
\* returns before it asks or writes.
C27_Convergence ==
    /\ (u_pc = "reported" /\ u_errors = <<>>) => NextRunTodo = {}
    /\ u_pc # "confirm again"
    /\ u_pc = "up to date" =>
          \A d \in DOMAIN u_docs :
              u_docs[d].status = "ok" =>
                  \A n \in DOMAIN GetDocxVariables(u_docs[d].defs) :
                      n \in DOMAIN DesiredFor(d) =>
                          GetDocxVariables(u_docs[d].defs)[n] = DesiredFor(d)[n]

\* a first run wrote two files, both got new definitions, and the run that
\* followed found every file up to date
C27_Witness ==
    /\ u_pc = "up to date"
    /\ u_count = 2
    /\ Len(u_todo) = 2
    /\ \A d \in TodoDocs :
          /\ u_docs[d].status = "ok"
          /\ u_docs[d].bak # NoBackup
          /\ u_docs[d].bak[1] # u_docs[d].defs

====
